---------------------------- MODULE Spec2Model ----------------------------
(***************************************************************************)
(* Model of meeting_scheduler_mcp: the calendar document, its store, the   *)
(* slot finder and the reservation step (calendar.py), together with the   *)
(* session life cycle of the e-mail collaborator (mail.py).                *)
(*                                                                         *)
(* Time is counted in seconds.  A date is the number of days since Monday  *)
(* 2025-04-28 (day 0); Thursday 2025-05-01 (day 3) is Labor Day in the     *)
(* German rule table.  A datetime is a record [wall, aware, off]: the wall *)
(* clock reading in seconds since day 0 00:00, whether it carries a UTC    *)
(* offset, and that offset in seconds.                                     *)
(***************************************************************************)
EXTENDS Integers, Sequences, FiniteSets, TLC

VARIABLES
    file,      \* the durable document calendar.yaml: [status, doc]
    clock,     \* the wall clock, seconds since day 0 00:00 UTC
    pc,        \* per caller: position inside save_draft_and_block_slot
    frame,     \* per caller: the locals of the running call
    client,    \* per caller: the IMAPEmailClient of the running call
    hist,      \* per caller: what the running/last call has done (history)
    calls,     \* number of reservation calls started so far
    saves,     \* history of add_blocked: n saves completed; stale: one of
               \* them overwrote a file that had changed since its load;
               \* overlap: a call began while another was running; log:
               \* the requests whose block was saved, in save order
    file0,     \* the file as the manager's construction left it (history)
    query,     \* the value returned by the last query operation
    finder     \* the locals of a find_available_slots call run step by step

vars == <<file, clock, pc, frame, client, hist, calls, saves, file0, query,
          finder>>

-----------------------------------------------------------------------------
(* Bounds of the model *)

\* reservation calls started in one behaviour
MaxCalls == 2

-----------------------------------------------------------------------------
(* Python values *)

None == <<>>
Some(v) == <<v>>
IsNone(o) == o = <<>>
Val(o) == o[1]

\* timedelta(minutes=m), timedelta(hours=h), timedelta(days=1) in seconds
Minutes(m) == m * 60
Hours(h) == h * 3600
SecondsPerDay == 24 * 3600

\* time(h, m) and time(h, m, s) as seconds since midnight
HM(h, m) == Hours(h) + Minutes(m)
EndOfDay == HM(23, 59) + 59

\* zoneinfo.ZoneInfo(name).utcoffset: the model's dates lie in one week of
\* summer time, so Europe/Berlin is UTC+02:00 throughout
UtcOffset(tz) == IF tz = "Europe/Berlin" THEN Hours(2) ELSE 0

\* datetime values
Aware(wall, off) == [wall |-> wall, aware |-> TRUE, off |-> off]
Naive(wall) == [wall |-> wall, aware |-> FALSE, off |-> 0]

\* the instant (UTC seconds) of an aware datetime
Instant(dt) == dt.wall - dt.off

\* datetime.combine(d, t, tzinfo=tz)
Combine(d, t, tz) == Aware(d * SecondsPerDay + t, UtcOffset(tz))

\* datetime.now(tz)
NowIn(tz, clk) == Aware(clk + UtcOffset(tz), UtcOffset(tz))

\* dt.date(), dt.time(), date.isoweekday()
DateOf(dt) == dt.wall \div SecondsPerDay
TimeOf(dt) == dt.wall % SecondsPerDay
IsoWeekday(d) == (d % 7) + 1

\* dt + timedelta(seconds=s)
Plus(dt, s) == [dt EXCEPT !.wall = @ + s]

\* a < b on datetimes: comparing an aware with a naive datetime raises
\* TypeError; two naive datetimes compare by wall clock
Comparable(a, b) == a.aware = b.aware
Lt(a, b) == IF a.aware THEN Instant(a) < Instant(b) ELSE a.wall < b.wall
Le(a, b) == IF a.aware THEN Instant(a) <= Instant(b) ELSE a.wall <= b.wall

\* results of operations that may raise: exc = "" means a normal return
Ret(v) == [exc |-> "", v |-> v]
Raise(e) == [exc |-> e, v |-> <<>>]

-----------------------------------------------------------------------------
(* ISO 8601 strings.  kind "invalid": not ISO 8601 (and holding no "T");   *)
(* "date": YYYY-MM-DD; "datetime": YYYY-MM-DDTHH:MM:SS with or without a   *)
(* UTC offset.                                                             *)

StrInvalid == [kind |-> "invalid", wall |-> 0, aware |-> FALSE, off |-> 0]
StrDate(d) == [kind |-> "date", wall |-> d * SecondsPerDay, aware |-> FALSE, off |-> 0]
StrDateTime(wall, off) == [kind |-> "datetime", wall |-> wall, aware |-> TRUE, off |-> off]
StrNaive(wall) == [kind |-> "datetime", wall |-> wall, aware |-> FALSE, off |-> 0]
StrEmpty == [kind |-> "empty", wall |-> 0, aware |-> FALSE, off |-> 0]

\* "T" in s
HasT(s) == s.kind = "datetime"

\* a variant of datetime_fromisoformat that takes any string
datetime_fromisoformat_lenient(s) ==
    Ret([wall |-> s.wall, aware |-> s.aware, off |-> s.off])

\* datetime.fromisoformat(s): a bare date parses to naive midnight
datetime_fromisoformat(s) ==
    IF s.kind \in {"invalid", "empty"} THEN Raise("ValueError")
    ELSE Ret([wall |-> s.wall, aware |-> s.aware, off |-> s.off])

\* date.fromisoformat(s): the day number
date_fromisoformat(s) ==
    IF s.kind = "date" THEN Ret(s.wall \div SecondsPerDay) ELSE Raise("ValueError")

\* dt.isoformat(): always holds a "T"; the offset is written iff dt is aware
isoformat(dt) ==
    [kind |-> "datetime", wall |-> dt.wall, aware |-> dt.aware, off |-> dt.off]

-----------------------------------------------------------------------------
(* calendar.py: the document model *)

\* a variant of TimeSlotValid that lets an empty window pass
TimeSlotValid_not_before(ts) == ~(ts.end < ts.start)

\* TimeSlot.validate_order: end must be after start
TimeSlotValid(ts) == ~(ts.end <= ts.start)

TimeSlot(start, end) == [start |-> start, end |-> end]

\* TimeSlot(start=..., end=...): the validator runs at construction
TimeSlot_model_validate(ts) ==
    IF TimeSlotValid(ts) THEN Ret(ts) ELSE Raise("ValidationError")

\* Weekday.iso_weekday of the codes mon .. sun
iso_weekday(day) ==
    CASE day = "mon" -> 1 [] day = "tue" -> 2 [] day = "wed" -> 3
      [] day = "thu" -> 4 [] day = "fri" -> 5 [] day = "sat" -> 6
      [] day = "sun" -> 7

\* BlockedTime(datetime=..., duration=..., until=..., reason=...)
BlockedTime(dt, duration, until, reason) ==
    [datetime |-> dt, duration |-> duration, until |-> until, reason |-> reason]

\* a variant of validate_duration_or_until that also asks a timed entry
\* for one of the two
validate_duration_or_until_timed(b) ==
    /\ ~(~IsNone(b.duration) /\ ~IsNone(b.until))
    /\ HasT(b.datetime) => ~(IsNone(b.duration) /\ IsNone(b.until))

\* BlockedTime.validate_duration_or_until: not both
validate_duration_or_until(b) == ~(~IsNone(b.duration) /\ ~IsNone(b.until))

\* BlockedTime(datetime=..., ...): the validator runs at construction
BlockedTime_model_validate(b) ==
    IF validate_duration_or_until(b) THEN Ret(b) ELSE Raise("ValidationError")

\* BlockedTime.is_all_day
is_all_day(b) == ~HasT(b.datetime)

\* BlockedTime.get_start(default_tz)
get_start(b, tz) ==
    IF is_all_day(b)
    THEN LET midnight(d) == IF d.exc # "" THEN d ELSE Ret(Combine(d.v, 0, tz))
         IN  midnight(date_fromisoformat(b.datetime))
    ELSE datetime_fromisoformat(b.datetime)

\* a variant of get_end that ends a bare date at 00:00:00 of that date
get_end_at_midnight(b, tz) ==
    LET start_of_day(d) ==
            IF d.exc # "" THEN d ELSE Ret(Combine(d.v, 0, tz))
        end_after(start) ==
            IF start.exc # "" THEN start
            ELSE IF ~IsNone(b.until) /\ Val(b.until) # StrEmpty
            THEN IF HasT(Val(b.until))
                 THEN datetime_fromisoformat(Val(b.until))
                 ELSE start_of_day(date_fromisoformat(Val(b.until)))
            ELSE IF ~IsNone(b.duration) /\ Val(b.duration) # 0
            THEN Ret(Plus(start.v, Minutes(Val(b.duration))))
            ELSE IF is_all_day(b)
            THEN Ret(Combine(DateOf(start.v), 0, tz))
            ELSE Raise("ValueError")
    IN  end_after(get_start(b, tz))

\* BlockedTime.get_end(default_tz); "if self.until" and "if self.duration"
\* test truthiness: None, "" and 0 fall through
get_end(b, tz) ==
    LET end_of_day(d) ==
            IF d.exc # "" THEN d ELSE Ret(Combine(d.v, EndOfDay, tz))
        end_after(start) ==
            IF start.exc # "" THEN start
            ELSE IF ~IsNone(b.until) /\ Val(b.until) # StrEmpty
            THEN IF HasT(Val(b.until))
                 THEN datetime_fromisoformat(Val(b.until))
                 ELSE end_of_day(date_fromisoformat(Val(b.until)))
            ELSE IF ~IsNone(b.duration) /\ Val(b.duration) # 0
            THEN Ret(Plus(start.v, Minutes(Val(b.duration))))
            ELSE IF is_all_day(b)
            THEN Ret(Combine(DateOf(start.v), EndOfDay, tz))
            ELSE Raise("ValueError")
    IN  end_after(get_start(b, tz))

-----------------------------------------------------------------------------
(* holidays.py *)

\* GermanBankHolidays.rules evaluated over the days a query of the model
\* can visit: Easter Monday 1 April 2024 (day -392) and Labor Day 2024
\* (day -362), 2025-04-28 .. 2025-06-02 (Labor Day, 1 May, is day 3;
\* Ascension Day, Easter 20 April + 39 days = 29 May, is day 31) and
\* 2027-05-06 .. 2027-06-05 (Ascension Day, Easter 28 March + 39 days =
\* 6 May, is day 738; Whit Monday, + 50 days = 17 May, is day 749) and
\* 2029-05-01 .. 2029-05-31 (Labor Day is day 1464, a Tuesday; Ascension
\* Day, Easter 1 April + 39 days = 10 May, is day 1473; Whit Monday,
\* 21 May, is day 1484)
GermanBankHolidays ==
    { [day |-> 0 - 392, name |-> "Easter Monday"],
      [day |-> 0 - 362, name |-> "Labor Day"],
      [day |-> 3, name |-> "Labor Day"], [day |-> 31, name |-> "Ascension Day"],
      [day |-> 738, name |-> "Ascension Day"],
      [day |-> 749, name |-> "Whit Monday"],
      [day |-> 1464, name |-> "Labor Day"],
      [day |-> 1473, name |-> "Ascension Day"],
      [day |-> 1484, name |-> "Whit Monday"] }

\* pd.DateOffset(years=n) across the years of the cached window (April
\* 2024 .. May 2027), none of which holds a 29 February
Years(n) == n * 365

\* pd.Timestamp.now().floor("D"): the day of the clock reading clk (the
\* machine runs in the zone of the calendar)
Today(clk) == (clk + UtcOffset("Europe/Berlin")) \div SecondsPerDay

\* a variant of HolidayChecker whose window ends three years after today
HolidayChecker_four_years(country_code, clk) ==
    IF ~IsNone(country_code) /\ Val(country_code) = "DE"
    THEN { h.day : h \in { g \in GermanBankHolidays :
                              /\ Today(clk) - Years(1) <= g.day
                              /\ g.day <= Today(clk) + Years(3) } }
    ELSE {}

\* HolidayChecker.__init__ at clock reading clk: the cached dates, those of
\* the rules from start = today - 1 year to end = start + 3 years; empty
\* unless the code is known
HolidayChecker(country_code, clk) ==
    IF ~IsNone(country_code) /\ Val(country_code) = "DE"
    THEN { h.day : h \in { g \in GermanBankHolidays :
                              /\ Today(clk) - Years(1) <= g.day
                              /\ g.day <= Today(clk) - Years(1) + Years(3) } }
    ELSE {}

\* a variant of is_holiday whose checker found no calendar for the code
is_holiday_no_calendar(country_code, clk, d) == d \in {}

\* HolidayChecker.is_holiday, of the checker built at clock reading clk
is_holiday(country_code, clk, d) == d \in HolidayChecker(country_code, clk)

\* HolidayChecker.get_holiday_name: the first matching rule's name, or None
get_holiday_name(country_code, d) ==
    IF IsNone(country_code) \/ Val(country_code) # "DE" THEN None
    ELSE IF \E h \in GermanBankHolidays : h.day = d
         THEN Some((CHOOSE h \in GermanBankHolidays : h.day = d).name)
         ELSE None

-----------------------------------------------------------------------------
(* calendar.py: SlotFinder.  A finder is built from a loaded Calendar      *)
(* `cal`; its tz is cal.schedule.timezone and its holiday checker is built *)
(* from cal.schedule.holidays.                                             *)

RECURSIVE weekly_slots_from(_, _, _)
RECURSIVE weekly_slots_from_distinct(_, _, _)
RECURSIVE slots_walk(_, _, _, _, _, _)
RECURSIVE slots_walk_before_end(_, _, _, _, _, _)
RECURSIVE slots_for_intervals(_, _, _, _, _, _)
RECURSIVE first_overlap_from(_, _, _, _)
RECURSIVE last_overlap_from(_, _, _, _)
RECURSIVE day_loop(_, _, _, _, _, _, _)

AvailableSlot(d, start_time, end_time, timezone) ==
    [date |-> d, start_time |-> start_time, end_time |-> end_time,
     timezone |-> timezone]

\* a variant of Overlaps that asks for the block to begin before the slot
Overlaps_begun(slot_start, slot_end, block_start, block_end) ==
    IF ~Comparable(slot_start, block_end) THEN Raise("TypeError")
    ELSE IF ~Lt(slot_start, block_end) THEN Ret(FALSE)
    ELSE IF ~Comparable(block_start, slot_start) THEN Raise("TypeError")
    ELSE Ret(Lt(block_start, slot_start))

\* a variant of Overlaps that takes the intervals as closed
Overlaps_closed(slot_start, slot_end, block_start, block_end) ==
    IF ~Comparable(slot_start, block_end) THEN Raise("TypeError")
    ELSE IF ~Le(slot_start, block_end) THEN Ret(FALSE)
    ELSE IF ~Comparable(block_start, slot_end) THEN Raise("TypeError")
    ELSE Ret(Le(block_start, slot_end))

\* the overlap test of _is_blocked and is_slot_bookable:
\*   slot_start < block_end and block_start < slot_end
\* evaluated left to right with short circuit; a comparison of an aware
\* with a naive datetime raises TypeError
Overlaps(slot_start, slot_end, block_start, block_end) ==
    IF ~Comparable(slot_start, block_end) THEN Raise("TypeError")
    ELSE IF ~Lt(slot_start, block_end) THEN Ret(FALSE)
    ELSE IF ~Comparable(block_start, slot_end) THEN Raise("TypeError")
    ELSE Ret(Lt(block_start, slot_end))

\* one iteration of the loop over cal.blocked
block_overlaps(cal, blocked, slot_start, slot_end) ==
    LET test(block_start, block_end) ==
            IF block_start.exc # "" THEN block_start
            ELSE IF block_end.exc # "" THEN block_end
            ELSE Overlaps(slot_start, slot_end, block_start.v, block_end.v)
    IN  test(get_start(blocked, cal.schedule.timezone),
             get_end(blocked, cal.schedule.timezone))

\* a variant of first_overlap_from that finds the last overlapping entry
last_overlap_from(cal, i, slot_start, slot_end) ==
    IF i > Len(cal.blocked) THEN Ret(0)
    ELSE LET go_on(o) ==
                 IF o.exc # "" THEN o
                 ELSE LET later(k) ==
                              IF k.exc # "" \/ k.v > 0 THEN k
                              ELSE Ret(IF o.v THEN i ELSE 0)
                      IN  later(last_overlap_from(cal, i + 1, slot_start,
                                                  slot_end))
         IN  go_on(block_overlaps(cal, cal.blocked[i], slot_start, slot_end))

\* index of the first entry of cal.blocked, from i on, that overlaps the
\* slot (0: none), as the loops over cal.blocked find it
first_overlap_from(cal, i, slot_start, slot_end) ==
    IF i > Len(cal.blocked) THEN Ret(0)
    ELSE LET go_on(o) ==
                 IF o.exc # "" THEN o
                 ELSE IF o.v THEN Ret(i)
                 ELSE first_overlap_from(cal, i + 1, slot_start, slot_end)
         IN  go_on(block_overlaps(cal, cal.blocked[i], slot_start, slot_end))

\* SlotFinder._is_blocked(d, start, end)
_is_blocked(cal, d, start, end) ==
    LET tz == cal.schedule.timezone
        slot_start == Combine(d, start, tz)
        slot_end == Combine(d, end, tz)
        found(k) == IF k.exc # "" THEN k ELSE Ret(k.v > 0)
    IN  found(first_overlap_from(cal, 1, slot_start, slot_end))

\* a variant of weekly_slots_from that lists an interval once
weekly_slots_from_distinct(cal, i, iso) ==
    IF i > Len(cal.schedule.weekly) THEN <<>>
    ELSE LET weekly == cal.schedule.weekly[i]
             here == IF \E j \in 1..Len(weekly.days) :
                            iso_weekday(weekly.days[j]) = iso
                     THEN weekly.slots ELSE <<>>
             merged(rest) ==
                 LET fresh(ts) == \A j \in 1..Len(rest) : rest[j] # ts
                 IN  SelectSeq(here, fresh) \o rest
         IN  merged(weekly_slots_from_distinct(cal, i + 1, iso))

\* the intervals of every weekly entry that lists the weekday, in order
weekly_slots_from(cal, i, iso) ==
    IF i > Len(cal.schedule.weekly) THEN <<>>
    ELSE LET weekly == cal.schedule.weekly[i]
             here == IF \E j \in 1..Len(weekly.days) :
                            iso_weekday(weekly.days[j]) = iso
                     THEN weekly.slots ELSE <<>>
         IN  here \o weekly_slots_from(cal, i + 1, iso)

\* a variant of slot_admitted without the notice test
slot_admitted_any_time(cal, d, current, slot_start, slot_end, min_bookable) ==
    LET free(b) == IF b.exc # "" THEN b ELSE Ret(~b.v)
    IN  free(_is_blocked(cal, d, slot_start, slot_end))

\* the admission test of one candidate: current >= min_bookable and not
\* self._is_blocked(d, slot_start, slot_end)
slot_admitted(cal, d, current, slot_start, slot_end, min_bookable) ==
    IF ~Le(min_bookable, current) THEN Ret(FALSE)
    ELSE LET free(b) == IF b.exc # "" THEN b ELSE Ret(~b.v)
         IN  free(_is_blocked(cal, d, slot_start, slot_end))

\* a variant of slots_walk that stops before a slot ending exactly at end
slots_walk_before_end(cal, d, current, end, min_bookable, available) ==
    IF ~Lt(Plus(current, Minutes(cal.schedule.slot_duration)), end)
    THEN Ret(available)
    ELSE LET next == Plus(current, Minutes(cal.schedule.slot_duration))
             slot_start == TimeOf(current)
             slot_end == TimeOf(next)
             go_on(ok) ==
                 IF ok.exc # "" THEN ok
                 ELSE slots_walk_before_end(cal, d, next, end, min_bookable,
                          IF ok.v
                          THEN Append(available,
                                   AvailableSlot(d, slot_start, slot_end,
                                                 cal.schedule.timezone))
                          ELSE available)
         IN  go_on(slot_admitted(cal, d, current, slot_start, slot_end,
                                 min_bookable))

\* the while loop over one interval, current + slot_duration <= end,
\* appending to the day's list `available`
slots_walk(cal, d, current, end, min_bookable, available) ==
    IF ~Le(Plus(current, Minutes(cal.schedule.slot_duration)), end)
    THEN Ret(available)
    ELSE LET next == Plus(current, Minutes(cal.schedule.slot_duration))
             slot_start == TimeOf(current)
             slot_end == TimeOf(next)
             go_on(ok) ==
                 IF ok.exc # "" THEN ok
                 ELSE slots_walk(cal, d, next, end, min_bookable,
                          IF ok.v
                          THEN Append(available,
                                   AvailableSlot(d, slot_start, slot_end,
                                                 cal.schedule.timezone))
                          ELSE available)
         IN  go_on(slot_admitted(cal, d, current, slot_start, slot_end,
                                 min_bookable))

\* the for loop over weekly_slots
slots_for_intervals(cal, d, intervals, i, min_bookable, available) ==
    IF i > Len(intervals) THEN Ret(available)
    ELSE LET tz == cal.schedule.timezone
             go_on(here) ==
                 IF here.exc # "" THEN here
                 ELSE slots_for_intervals(cal, d, intervals, i + 1,
                                          min_bookable, here.v)
         IN  go_on(slots_walk(cal, d, Combine(d, intervals[i].start, tz),
                              Combine(d, intervals[i].end, tz),
                              min_bookable, available))

\* a variant of _get_slots_for_date without the holiday test
_get_slots_for_date_any_day(cal, clk, d, min_bookable) ==
    slots_for_intervals(cal, d, weekly_slots_from(cal, 1, IsoWeekday(d)),
                        1, min_bookable, <<>>)

\* SlotFinder._get_slots_for_date(d, min_bookable) of the finder built at
\* clock reading clk
_get_slots_for_date(cal, clk, d, min_bookable) ==
    IF is_holiday(cal.schedule.holidays, clk, d) THEN Ret(<<>>)
    ELSE slots_for_intervals(cal, d, weekly_slots_from(cal, 1, IsoWeekday(d)),
                             1, min_bookable, <<>>)

\* the while loop of find_available_slots
day_loop(cal, clk, current, to_date, max_results, available, min_bookable) ==
    IF ~(current <= to_date /\ Len(available) < max_results)
    THEN Ret(available)
    ELSE LET go_on(day_slots) ==
                 IF day_slots.exc # "" THEN day_slots
                 ELSE day_loop(cal, clk, current + 1, to_date, max_results,
                               available \o day_slots.v, min_bookable)
         IN  go_on(_get_slots_for_date(cal, clk, current, min_bookable))

\* a variant of Truncate that keeps the end of the list
Truncate_tail(available, max_results) ==
    SubSeq(available,
           Len(available) + 1 - (IF Len(available) < max_results
                                 THEN Len(available) ELSE max_results),
           Len(available))

\* available[:max_results] for a list that is empty when max_results <= 0
Truncate(available, max_results) ==
    SubSeq(available, 1, IF Len(available) < max_results
                         THEN Len(available) ELSE max_results)

\* SlotFinder.find_available_slots(from_date, to_date, max_results,
\* min_notice_hours) called at clock reading clk
find_available_slots(cal, clk, from_date, to_date, max_results, min_notice_hours) ==
    LET now == NowIn(cal.schedule.timezone, clk)
        from == IF IsNone(from_date) THEN DateOf(now) ELSE Val(from_date)
        to == IF IsNone(to_date) THEN from + 30 ELSE Val(to_date)
        min_bookable == Plus(now, Hours(min_notice_hours))
        cut(available) ==
            IF available.exc # "" THEN available
            ELSE Ret(Truncate(available.v, max_results))
    IN  cut(day_loop(cal, clk, from, to, max_results, <<>>, min_bookable))

\* whether some weekly entry for the weekday holds an interval with
\* slot.start <= start and end <= slot.end
day_available(cal, d, start, end) ==
    \E i \in 1..Len(cal.schedule.weekly) :
        LET weekly == cal.schedule.weekly[i] IN
        /\ \E j \in 1..Len(weekly.days) :
               iso_weekday(weekly.days[j]) = IsoWeekday(d)
        /\ \E k \in 1..Len(weekly.slots) :
               weekly.slots[k].start <= start /\ end <= weekly.slots[k].end

\* a variant that replaces a missing reason only, not an empty one
reason_or_default_unset_only(reason) ==
    IF IsNone(reason) THEN "Blocked" ELSE Val(reason)

\* blocked.reason or "Blocked"
reason_or_default(reason) ==
    IF IsNone(reason) \/ Val(reason) = "" THEN "Blocked" ELSE Val(reason)

\* a variant of is_slot_bookable that holds the default notice of
\* find_available_slots, two hours, against the start
is_slot_bookable_with_notice(cal, clk, d, start, end) ==
    LET tz == cal.schedule.timezone
        now == NowIn(tz, clk)
        slot_dt == Combine(d, start, tz)
    IN  IF Lt(slot_dt, Plus(now, Hours(2)))
        THEN Ret(<<FALSE, "Timepoint is in the past">>)
        ELSE IF is_holiday(cal.schedule.holidays, clk, d)
        THEN LET name == get_holiday_name(cal.schedule.holidays, d)
             IN  Ret(<<FALSE, IF IsNone(name) THEN "Holiday" ELSE Val(name)>>)
        ELSE IF ~day_available(cal, d, start, end)
        THEN Ret(<<FALSE, "Outside of availability">>)
        ELSE LET slot_start == Combine(d, start, tz)
                 slot_end == Combine(d, end, tz)
                 rejected(k) ==
                     IF k.exc # "" THEN k
                     ELSE IF k.v > 0
                     THEN Ret(<<FALSE,
                                reason_or_default(cal.blocked[k.v].reason)>>)
                     ELSE Ret(<<TRUE, "">>)
                 checked(b) ==
                     IF b.exc # "" THEN b
                     ELSE IF ~b.v THEN Ret(<<TRUE, "">>)
                     ELSE rejected(first_overlap_from(cal, 1, slot_start,
                                                      slot_end))
             IN  checked(_is_blocked(cal, d, start, end))

\* a variant of is_slot_bookable that looks at the weekly availability
\* before it looks at the holidays
is_slot_bookable_availability_first(cal, clk, d, start, end) ==
    LET tz == cal.schedule.timezone
        now == NowIn(tz, clk)
        slot_dt == Combine(d, start, tz)
    IN  IF Lt(slot_dt, now) THEN Ret(<<FALSE, "Timepoint is in the past">>)
        ELSE IF ~day_available(cal, d, start, end)
        THEN Ret(<<FALSE, "Outside of availability">>)
        ELSE IF is_holiday(cal.schedule.holidays, clk, d)
        THEN LET name == get_holiday_name(cal.schedule.holidays, d)
             IN  Ret(<<FALSE, IF IsNone(name) THEN "Holiday" ELSE Val(name)>>)
        ELSE LET slot_start == Combine(d, start, tz)
                 slot_end == Combine(d, end, tz)
                 rejected(k) ==
                     IF k.exc # "" THEN k
                     ELSE IF k.v > 0
                     THEN Ret(<<FALSE,
                                reason_or_default(cal.blocked[k.v].reason)>>)
                     ELSE Ret(<<TRUE, "">>)
                 checked(b) ==
                     IF b.exc # "" THEN b
                     ELSE IF ~b.v THEN Ret(<<TRUE, "">>)
                     ELSE rejected(first_overlap_from(cal, 1, slot_start,
                                                      slot_end))
             IN  checked(_is_blocked(cal, d, start, end))

\* SlotFinder.is_slot_bookable(d, start, end) called at clock reading clk:
\* the pair (bookable, reason)
is_slot_bookable(cal, clk, d, start, end) ==
    LET tz == cal.schedule.timezone
        now == NowIn(tz, clk)
        slot_dt == Combine(d, start, tz)
    IN  IF Lt(slot_dt, now) THEN Ret(<<FALSE, "Timepoint is in the past">>)
        ELSE IF is_holiday(cal.schedule.holidays, clk, d)
        THEN LET name == get_holiday_name(cal.schedule.holidays, d)
             IN  Ret(<<FALSE, IF IsNone(name) THEN "Holiday" ELSE Val(name)>>)
        ELSE IF ~day_available(cal, d, start, end)
        THEN Ret(<<FALSE, "Outside of availability">>)
        ELSE LET slot_start == Combine(d, start, tz)
                 slot_end == Combine(d, end, tz)
                 rejected(k) ==
                     IF k.exc # "" THEN k
                     ELSE IF k.v > 0
                     THEN Ret(<<FALSE,
                                reason_or_default(cal.blocked[k.v].reason)>>)
                     ELSE Ret(<<TRUE, "">>)
                 checked(b) ==
                     IF b.exc # "" THEN b
                     ELSE IF ~b.v THEN Ret(<<TRUE, "">>)
                     ELSE rejected(first_overlap_from(cal, 1, slot_start,
                                                      slot_end))
             IN  checked(_is_blocked(cal, d, start, end))

-----------------------------------------------------------------------------
(* calendar.py: documents, CalendarStore and CalendarManager *)

Schedule(timezone, slot_duration, holidays, weekly) ==
    [timezone |-> timezone, slot_duration |-> slot_duration,
     holidays |-> holidays, weekly |-> weekly]

WeeklyAvailability(days, slots) == [days |-> days, slots |-> slots]

Calendar(schedule, blocked) == [schedule |-> schedule, blocked |-> blocked]

WorkWeek == <<"mon", "tue", "wed", "thu", "fri">>

\* the default calendar of CalendarManager._ensure_file_exists
default_calendar ==
    Calendar(Schedule("Europe/Berlin", 30, Some("DE"),
                      <<WeeklyAvailability(WorkWeek,
                            <<TimeSlot(HM(9, 0), HM(12, 0)),
                              TimeSlot(HM(13, 0), HM(17, 0))>>)>>),
             <<>>)

\* the calendar of the tests' InMemoryCalendarStore: Mon-Fri 09:00-17:00
nine_to_five ==
    Schedule("Europe/Berlin", 30, Some("DE"),
             <<WeeklyAvailability(WorkWeek, <<TimeSlot(HM(9, 0), HM(17, 0))>>)>>)

\* the durable file
Missing == [status |-> "missing", doc |-> default_calendar]
Malformed == [status |-> "malformed", doc |-> default_calendar]
Stored(cal) == [status |-> "ok", doc |-> cal]

\* wall clock readings on a day of the model's week
At(d, h, m) == d * SecondsPerDay + HM(h, m)

\* the files a manager may find at construction: none, one that does not
\* validate, and calendars written earlier
ExistingFiles ==
    { Missing, Malformed,
      \* Monday 10:00+02:00 for 60 minutes
      Stored(Calendar(nine_to_five,
          <<BlockedTime(StrDateTime(At(0, 10, 0), Hours(2)), Some(60), None,
                        Some("Meeting"))>>)),
      \* Monday 13:00 written as 11:00+00:00, and an all-day Tuesday
      Stored(Calendar(default_calendar.schedule,
          <<BlockedTime(StrDateTime(At(0, 11, 0), 0), Some(30), None, None),
            BlockedTime(StrDate(1), None, None, Some("Urlaub"))>>)),
      \* Tuesday to Wednesday by a bare until date, Friday 09:00 until 10:15
      Stored(Calendar(nine_to_five,
          <<BlockedTime(StrDate(1), None, Some(StrDate(2)), Some("Trip")),
            BlockedTime(StrDateTime(At(4, 9, 0), Hours(2)), None,
                        Some(StrDateTime(At(4, 10, 15), Hours(2))), None)>>)),
      \* Monday 15:00 written without a UTC offset, as add_blocked writes
      \* the start of a call whose datetime_str has none
      Stored(Calendar(nine_to_five,
          <<BlockedTime(StrNaive(At(0, 15, 0)), Some(60), None,
                        Some("Naive"))>>)) }

\* CalendarStore.load: the Calendar, or the exception it raises
load(f) ==
    CASE f.status = "ok" -> Ret(f.doc)
      [] f.status = "missing" -> Raise("FileNotFoundError")
      [] f.status = "malformed" -> Raise("ValidationError")

\* a variant of save that adds the last entry of `calendar` to the entries
\* the file holds at the time of the save
save_merging(f, calendar) ==
    IF f.status # "ok" \/ calendar.blocked = <<>>
    THEN [status |-> "ok", doc |-> calendar]
    ELSE [status |-> "ok",
          doc |-> [f.doc EXCEPT !.blocked =
                      Append(@, calendar.blocked[Len(calendar.blocked)])]]

\* CalendarStore.save: the file after a full overwrite
save(f, calendar) == Stored(calendar)

\* a variant of _ensure_file_exists that writes the default document at
\* every construction
_ensure_file_exists_always(f) == save(f, default_calendar)

\* CalendarManager._ensure_file_exists (run by __init__)
_ensure_file_exists(f) ==
    IF f.status = "missing" THEN save(f, default_calendar) ELSE f

\* a variant of get_free_slots with the clause for FileNotFoundError only
get_free_slots_file_errors_only(f, clk) ==
    LET found(slots) == slots
        loaded(calendar) ==
            IF calendar.exc = "FileNotFoundError" THEN Ret(<<>>)
            ELSE IF calendar.exc # "" THEN calendar
            ELSE found(find_available_slots(calendar.v, clk, None, None, 50, 2))
    IN  loaded(load(f))

\* CalendarManager.get_free_slots called at clock reading clk: load, build
\* a SlotFinder, find_available_slots(max_results=50) with the default
\* notice of 2 hours; both except clauses return []
get_free_slots(f, clk) ==
    LET found(slots) == IF slots.exc # "" THEN Ret(<<>>) ELSE slots
        loaded(calendar) ==
            IF calendar.exc # "" THEN Ret(<<>>)
            ELSE found(find_available_slots(calendar.v, clk, None, None, 50, 2))
    IN  loaded(load(f))

\* a variant of add_blocked_calendar that puts the new entry first
add_blocked_calendar_in_front(calendar, dt, duration, until, reason) ==
    [calendar EXCEPT !.blocked =
        <<BlockedTime(isoformat(dt), duration,
                      IF IsNone(until) THEN None ELSE Some(isoformat(Val(until))),
                      reason)>> \o @]

\* the Calendar that add_blocked hands to save: the loaded one with the
\* new BlockedTime appended
add_blocked_calendar(calendar, dt, duration, until, reason) ==
    LET blocked == BlockedTime(isoformat(dt), duration,
                               IF IsNone(until) THEN None
                               ELSE Some(isoformat(Val(until))),
                               reason)
    IN  [calendar EXCEPT !.blocked = Append(@, blocked)]

\* the exception classes and their base classes (Exception is everyone's)
Bases(exc) ==
    CASE exc = "ValidationError" -> {"ValidationError", "ValueError", "Exception"}
      [] exc = "FileNotFoundError" -> {"FileNotFoundError", "OSError", "Exception"}
      [] exc = "ConnectionError" -> {"ConnectionError", "OSError", "Exception"}
      [] OTHER -> {exc, "Exception"}

\* a variant of except_clauses without the closing "except Exception"
except_clauses_named_only ==
    << {"ValueError"}, {"FileNotFoundError"}, {"ConnectionError", "OSError"} >>

\* the except clauses of save_draft_and_block_slot, in order; each one
\* logs and returns False
except_clauses ==
    << {"ValueError"}, {"FileNotFoundError"}, {"ConnectionError", "OSError"},
       {"Exception"} >>

\* the result of a call in which exc was raised inside the try block
on_exception(exc) ==
    IF \E i \in 1..Len(except_clauses) : Bases(exc) \cap except_clauses[i] # {}
    THEN "False" ELSE "escaped"

-----------------------------------------------------------------------------
(* mail.py: IMAPEmailClient.  client.imap: self._imap is not None (a       *)
(* logged-in connection is held); client.selected: the connection has a    *)
(* mailbox selected.                                                       *)

\* IMAPEmailClient.__init__
IMAPEmailClient == [imap |-> FALSE, selected |-> FALSE]

\* connect(): "" on success, else the exception it raises (ValueError for
\* an incomplete configuration or a bad port, ConnectionError otherwise)
connect_outcomes == {"", "ValueError", "ConnectionError"}

\* IMAPEmailClient.connect and __enter__
connect(cl, outcome) ==
    IF outcome = "" THEN [cl EXCEPT !.imap = TRUE, !.selected = FALSE] ELSE cl

\* save_draft(): <<returned value, mailbox selected>>; every exception of
\* the IMAP calls is caught inside save_draft and turned into False.  The
\* drafts folder is selected, or, when SELECT is refused, created and
\* selected again without a look at the answer; APPEND needs no selected
\* mailbox
save_draft_outcomes ==
    { <<TRUE, TRUE>>, <<TRUE, FALSE>>, <<FALSE, TRUE>>, <<FALSE, FALSE>> }

\* IMAPEmailClient.save_draft on a connected client
save_draft(cl, outcome) ==
    IF ~cl.imap THEN Raise("ConnectionError")
    ELSE [exc |-> "", v |-> outcome[1], cl |-> [cl EXCEPT !.selected = outcome[2]]]

\* what self._imap.close(); self._imap.logout() may do: imaplib refuses
\* CLOSE unless a mailbox is selected (IMAP4.error); otherwise the calls
\* return (""), or fail on the socket (OSError), or find the server gone
\* (IMAP4.abort, an IMAP4.error)
imap_close_outcomes(cl) ==
    IF cl.selected THEN {"", "OSError", "IMAP4.error"} ELSE {"IMAP4.error"}

\* IMAPEmailClient.close and __exit__: except (ConnectionError, OSError)
\* is passed over and self._imap reset; any other exception leaves close
\* before the reset
close(cl, outcome) ==
    IF ~cl.imap THEN [exc |-> "", cl |-> cl]
    ELSE IF outcome = "" \/ Bases(outcome) \cap {"ConnectionError", "OSError"} # {}
    THEN [exc |-> "", cl |-> [cl EXCEPT !.imap = FALSE]]
    ELSE [exc |-> outcome, cl |-> cl]

-----------------------------------------------------------------------------
(* The callers and their inputs *)

Callers == {"c1", "c2"}

\* the wall clock readings of the model: Monday 08:00, 12:00 and 13:00 in
\* Europe/Berlin
LocalClock(d, h, m) == At(d, h, m) - Hours(2)
ClockValues == { LocalClock(0, 8, 0), LocalClock(0, 12, 0), LocalClock(0, 13, 0) }

Request(datetime_str, duration, reason) ==
    [datetime_str |-> datetime_str, duration |-> duration, reason |-> reason]

\* the arguments of save_draft_and_block_slot (the mail texts do not
\* influence the control flow and are left out)
Requests ==
    { Request(StrDateTime(At(0, 14, 0), Hours(2)), 60, "Meeting"),
      \* the same instant written with offset +00:00, no reason text
      Request(StrDateTime(At(0, 12, 0), 0), 30, ""),
      \* Monday 10:00: in the past from 12:00 on, and blocked in one file
      Request(StrDateTime(At(0, 10, 0), Hours(2)), 30, "Early"),
      \* Monday 12:30: in the lunch break of the default calendar
      Request(StrDateTime(At(0, 12, 30), Hours(2)), 30, "Lunch"),
      \* Thursday, Labor Day
      Request(StrDateTime(At(3, 10, 0), Hours(2)), 60, "Holiday"),
      \* no UTC offset, and a bare date
      Request(StrNaive(At(0, 15, 0)), 60, "Naive"),
      Request(StrDate(1), 60, "Date"),
      \* invalid inputs
      Request(StrInvalid, 60, "Bad"),
      Request(StrDateTime(At(0, 14, 0), Hours(2)), 0, "Zero"),
      Request(StrDateTime(At(0, 14, 0), Hours(2)), -30, "Negative") }

NoFrame ==
    [datetime_str |-> StrInvalid, duration |-> 0, reason |-> "",
     slot_start |-> Naive(0), calendar |-> default_calendar,
     success |-> "none", result |-> "none"]

NoHist ==
    [before |-> Missing, loaded |-> Missing, saved |-> FALSE, connects |-> 0,
     opened_after_save |-> FALSE, drafts |-> 0, draft_ret |-> "none",
     closes |-> 0, raised |-> ""]

NoQuery == [op |-> "none", args |-> <<>>, clk |-> 0, cal |-> default_calendar,
            ret |-> Ret(<<>>)]

\* no find_available_slots call is running step by step
NoFinder ==
    [at |-> "idle", cal |-> default_calendar, clk |-> 0,
     from_date |-> 0, to_date |-> 0, max_results |-> 0,
     min_notice_hours |-> 0, min_bookable |-> Aware(0, 0),
     current |-> 0, available |-> <<>>,
     weekly_slots |-> <<>>, k |-> 0, cursor |-> Aware(0, 0),
     day_slots |-> <<>>, ret |-> Ret(<<>>)]

Bool(b) == IF b THEN "True" ELSE "False"

Idle == \A c \in Callers : pc[c] = "idle"

-----------------------------------------------------------------------------
(* CalendarManager.save_draft_and_block_slot, one action per step.  The    *)
(* steps of the try block run in the order step_after gives.               *)

\* a variant of step_after with the with statement before add_blocked
step_after_notify_first(stage) ==
    CASE stage = "validate" -> "enter"
      [] stage = "enter" -> "draft"
      [] stage = "draft" -> "exit"
      [] stage = "exit" -> "load"
      [] stage = "load" -> "save"
      [] stage = "save" -> "done"

\* the order of the statements of the try block: validation, add_blocked
\* (load, then save), the with statement (enter, save_draft, exit), return
step_after(stage) ==
    CASE stage = "validate" -> "load"
      [] stage = "load" -> "save"
      [] stage = "save" -> "enter"
      [] stage = "enter" -> "draft"
      [] stage = "draft" -> "exit"
      [] stage = "exit" -> "done"

\* go on to the next statement; "return success" when it is the last
Advance(c, stage, fr) ==
    /\ pc' = [pc EXCEPT ![c] = step_after(stage)]
    /\ frame' = [frame EXCEPT ![c] =
                    IF step_after(stage) = "done"
                    THEN [fr EXCEPT !.result = fr.success] ELSE fr]

\* an exception raised inside the try block ends the call
Fail(c, exc, fr) ==
    /\ pc' = [pc EXCEPT ![c] = "done"]
    /\ frame' = [frame EXCEPT ![c] = [fr EXCEPT !.result = on_exception(exc)]]

\* "return False" of the two validations
ReturnFalse(c, fr) ==
    /\ pc' = [pc EXCEPT ![c] = "done"]
    /\ frame' = [frame EXCEPT ![c] = [fr EXCEPT !.result = "False"]]

\* the call and its validations: parse the start, then check the duration
Call(c, req) ==
    /\ pc[c] = "idle"
    /\ calls < MaxCalls
    /\ calls' = calls + 1
    /\ LET parsed == datetime_fromisoformat(req.datetime_str)
           fr == [NoFrame EXCEPT !.datetime_str = req.datetime_str,
                                 !.duration = req.duration,
                                 !.reason = req.reason]
       IN  /\ hist' = [hist EXCEPT ![c] = [NoHist EXCEPT !.before = file]]
           /\ IF parsed.exc # "" THEN ReturnFalse(c, fr)
              ELSE IF req.duration <= 0 THEN ReturnFalse(c, fr)
              ELSE Advance(c, "validate", [fr EXCEPT !.slot_start = parsed.v])
    /\ client' = [client EXCEPT ![c] = IMAPEmailClient]
    /\ saves' = [saves EXCEPT !.overlap =
                     @ \/ \E o \in Callers \ {c} : pc[o] \notin {"idle", "done"}]
    /\ UNCHANGED <<file, clock, file0, finder, query>>

\* add_blocked, first half: load the file and append the new entry to the
\* loaded Calendar
AddBlockedLoad(c) ==
    /\ pc[c] = "load"
    /\ LET loaded == load(file) IN
       IF loaded.exc # ""
       THEN /\ Fail(c, loaded.exc, frame[c])
            /\ hist' = [hist EXCEPT ![c].raised = loaded.exc]
       ELSE /\ Advance(c, "load",
                   [frame[c] EXCEPT !.calendar =
                       add_blocked_calendar(loaded.v, frame[c].slot_start,
                           Some(frame[c].duration), None,
                           Some(frame[c].reason))])
            /\ hist' = [hist EXCEPT ![c].loaded = file]
    /\ UNCHANGED <<file, clock, client, calls, saves, file0, finder, query>>

\* add_blocked, second half: overwrite the file
AddBlockedSave(c) ==
    /\ pc[c] = "save"
    /\ file' = save(file, frame[c].calendar)
    /\ saves' = [saves EXCEPT
                     !.n = @ + 1,
                     !.stale = @ \/ file # hist[c].loaded,
                     !.log = Append(@, Request(frame[c].datetime_str,
                                               frame[c].duration,
                                               frame[c].reason))]
    /\ hist' = [hist EXCEPT ![c].saved = TRUE]
    /\ Advance(c, "save", frame[c])
    /\ UNCHANGED <<clock, client, calls, file0, finder, query>>

\* open() failing in load or save: the OSError ends the call
StorageFault(c) ==
    /\ pc[c] \in {"load", "save"}
    /\ \E exc \in {"FileNotFoundError", "OSError"} :
          /\ Fail(c, exc, frame[c])
          /\ hist' = [hist EXCEPT ![c].raised = exc]
    /\ UNCHANGED <<file, clock, client, calls, saves, file0, finder, query>>

\* with email_client: __enter__ connects
Enter(c) ==
    /\ pc[c] = "enter"
    /\ \E outcome \in connect_outcomes :
          /\ client' = [client EXCEPT ![c] = connect(@, outcome)]
          /\ IF outcome = ""
             THEN /\ Advance(c, "enter", frame[c])
                  /\ hist' = [hist EXCEPT ![c].connects = @ + 1,
                                          ![c].opened_after_save = hist[c].saved]
             ELSE /\ Fail(c, outcome, frame[c])
                  /\ hist' = [hist EXCEPT ![c].connects = @ + 1,
                                          ![c].opened_after_save = hist[c].saved,
                                          ![c].raised = outcome]
    /\ UNCHANGED <<file, clock, calls, saves, file0, finder, query>>

\* success = email_client.save_draft(...)
SaveDraft(c) ==
    /\ pc[c] = "draft"
    /\ \E outcome \in save_draft_outcomes :
          LET r == save_draft(client[c], outcome) IN
          /\ r.exc = ""
          /\ client' = [client EXCEPT ![c] = r.cl]
          /\ hist' = [hist EXCEPT ![c].drafts = @ + 1,
                                  ![c].draft_ret = Bool(r.v)]
          /\ Advance(c, "draft", [frame[c] EXCEPT !.success = Bool(r.v)])
    /\ UNCHANGED <<file, clock, calls, saves, file0, finder, query>>

\* leaving the with block: __exit__ closes; an exception of close ends
\* the call, otherwise "return success" follows
Exit(c) ==
    /\ pc[c] = "exit"
    /\ \E outcome \in imap_close_outcomes(client[c]) :
          LET r == close(client[c], outcome) IN
          /\ client' = [client EXCEPT ![c] = r.cl]
          /\ IF r.exc = ""
             THEN /\ Advance(c, "exit", frame[c])
                  /\ hist' = [hist EXCEPT ![c].closes = @ + 1]
             ELSE /\ Fail(c, r.exc, frame[c])
                  /\ hist' = [hist EXCEPT ![c].closes = @ + 1,
                                          ![c].raised = r.exc]
    /\ UNCHANGED <<file, clock, calls, saves, file0, finder, query>>

\* the caller takes the returned value; the locals of the call and its
\* IMAPEmailClient object are dropped
Return(c) ==
    /\ pc[c] = "done"
    /\ pc' = [pc EXCEPT ![c] = "idle"]
    /\ frame' = [frame EXCEPT ![c] = NoFrame]
    /\ hist' = [hist EXCEPT ![c] = NoHist]
    /\ client' = [client EXCEPT ![c] = IMAPEmailClient]
    /\ UNCHANGED <<file, clock, calls, saves, file0, finder, query>>

\* time passes
Tick ==
    /\ \E t \in ClockValues : t > clock /\ clock' = t
    /\ UNCHANGED <<file, pc, frame, client, hist, calls, saves, file0, finder, query>>

-----------------------------------------------------------------------------
(* Queries on the stored calendar: a SlotFinder is built from the loaded   *)
(* Calendar and asked once.                                                *)

\* day 738 is Ascension Day 2027, a Thursday; day 1464 is Labor Day 2029
FromDates == {None, Some(0), Some(3), Some(5), Some(738), Some(1464)}
ToDates == {None, Some(0), Some(4), Some(6)}
MaxResults == {0, 1, 3, 50}
NoticeHours == {0, 1, 2}

QueryDates == {0, 3, 5, 738}
QueryStarts == {HM(10, 0), HM(12, 30), HM(14, 0)}
QueryLengths == {30, 60}

FindAvailableSlots(from_date, to_date, max_results, min_notice_hours) ==
    /\ query.op = "none"
    /\ file.status = "ok"
    /\ query' = [op |-> "find",
                 args |-> <<from_date, to_date, max_results, min_notice_hours>>,
                 clk |-> clock, cal |-> load(file).v,
                 ret |-> find_available_slots(load(file).v, clock, from_date,
                             to_date, max_results, min_notice_hours)]
    /\ UNCHANGED <<file, clock, pc, frame, client, hist, calls, saves, file0, finder>>

IsSlotBookable(d, start, end) ==
    /\ query.op = "none"
    /\ file.status = "ok"
    /\ query' = [op |-> "bookable", args |-> <<d, start, end>>,
                 clk |-> clock, cal |-> load(file).v,
                 ret |-> is_slot_bookable(load(file).v, clock, d, start, end)]
    /\ UNCHANGED <<file, clock, pc, frame, client, hist, calls, saves, file0, finder>>

\* the datetimes of the overlap tests: Monday 10:00, 11:00 and 12:00 with
\* offset +02:00, 10:00 and 11:00 of them written with offset +00:00, and
\* 10:00 and 11:00 without offset
Datetimes ==
    { Aware(At(0, 10, 0), Hours(2)), Aware(At(0, 11, 0), Hours(2)),
      Aware(At(0, 12, 0), Hours(2)), Aware(At(0, 8, 0), 0),
      Aware(At(0, 9, 0), 0), Naive(At(0, 10, 0)), Naive(At(0, 11, 0)) }

\* the slots of the overlap tests, as datetime.combine(d, t, tzinfo=self.tz)
\* makes them
SlotTimes == { <<HM(10, 0), HM(11, 0)>>, <<HM(11, 0), HM(12, 0)>>,
               <<HM(10, 0), HM(12, 0)>> }

\* the fields BlockedTime is constructed with
BlockDatetimes ==
    { StrDate(0), StrDateTime(At(0, 10, 0), Hours(2)), StrNaive(At(0, 10, 0)) }
BlockDurations == { None, Some(0), Some(60) }
BlockUntils ==
    { None, Some(StrEmpty), Some(StrDate(1)),
      Some(StrDateTime(At(0, 11, 0), Hours(2))) }

\* the region codes a checker is built with and the dates it is asked
RegionCodes == { None, Some(""), Some("DE"), Some("XX") }
HolidayDates == { 0 - 392, 0 - 362, 0, 3, 4, 31, 738, 749, 1464 }

\* the times TimeSlot is constructed with
SlotBounds == { HM(9, 0), HM(9, 30), HM(12, 0) }

\* the test slot_start < block_end and block_start < slot_end of
\* _is_blocked, and the same test with slot and block exchanged
OverlapTest(slot, block_start, block_end) ==
    LET slot_start == Combine(0, slot[1], "Europe/Berlin")
        slot_end == Combine(0, slot[2], "Europe/Berlin")
    IN  /\ query.op = "none"
        /\ query' = [NoQuery EXCEPT
                        !.op = "overlaps",
                        !.args = <<slot_start, slot_end, block_start, block_end>>,
                        !.ret = <<Overlaps(slot_start, slot_end,
                                           block_start, block_end),
                                  Overlaps(block_start, block_end,
                                           slot_start, slot_end)>>]
        /\ UNCHANGED <<file, clock, pc, frame, client, hist, calls, saves, file0, finder>>

\* BlockedTime(datetime=dt, duration=duration, until=until)
ConstructBlockedTime(dt, duration, until) ==
    /\ query.op = "none"
    /\ query' = [NoQuery EXCEPT
                    !.op = "blocked",
                    !.args = <<dt, duration, until>>,
                    !.ret = BlockedTime_model_validate(
                                BlockedTime(dt, duration, until, None))]
    /\ UNCHANGED <<file, clock, pc, frame, client, hist, calls, saves, file0, finder>>

\* get_end(tz) of the entry just constructed
GetEnd ==
    /\ query.op = "blocked"
    /\ query.ret.exc = ""
    /\ query' = [NoQuery EXCEPT
                    !.op = "get_end",
                    !.args = <<query.ret.v>>,
                    !.ret = get_end(query.ret.v, "Europe/Berlin")]
    /\ UNCHANGED <<file, clock, pc, frame, client, hist, calls, saves, file0, finder>>

\* HolidayChecker(country_code).is_holiday(d), the checker built now
IsHoliday(country_code, d) ==
    /\ query.op = "none"
    /\ query' = [NoQuery EXCEPT
                    !.op = "is_holiday",
                    !.args = <<country_code, d>>,
                    !.clk = clock,
                    !.ret = Ret(is_holiday(country_code, clock, d))]
    /\ UNCHANGED <<file, clock, pc, frame, client, hist, calls, saves, file0, finder>>

\* TimeSlot(start=start, end=end)
ConstructTimeSlot(start, end) ==
    /\ query.op = "none"
    /\ query' = [NoQuery EXCEPT
                    !.op = "timeslot",
                    !.args = <<start, end>>,
                    !.ret = TimeSlot_model_validate(TimeSlot(start, end))]
    /\ UNCHANGED <<file, clock, pc, frame, client, hist, calls, saves, file0, finder>>

\* calendar_manager.get_free_slots()
GetFreeSlots ==
    /\ query.op = "none"
    /\ query' = [NoQuery EXCEPT !.op = "free", !.args = <<file>>,
                                !.clk = clock,
                                !.ret = get_free_slots(file, clock)]
    /\ UNCHANGED <<file, clock, pc, frame, client, hist, calls, saves, file0, finder>>

\* CalendarManager() constructed once more (the server is started again)
Construct ==
    /\ query.op = "none"
    /\ Idle
    /\ file' = _ensure_file_exists(file)
    /\ query' = [NoQuery EXCEPT !.op = "construct", !.args = <<file>>,
                                !.clk = clock]
    /\ UNCHANGED <<clock, pc, frame, client, hist, calls, saves, file0, finder>>

\* the file is removed, or overwritten with text that is no Calendar,
\* between two calls
FileLost ==
    /\ query.op = "none"
    /\ Idle
    /\ file.status = "ok"
    /\ file' \in {Missing, Malformed}
    /\ UNCHANGED <<clock, pc, frame, client, hist, calls, saves, file0, finder, query>>

\* the asker takes the returned value
Answered ==
    /\ query.op # "none"
    /\ query' = NoQuery
    /\ UNCHANGED <<file, clock, pc, frame, client, hist, calls, saves, file0, finder>>

-----------------------------------------------------------------------------
(* find_available_slots run one loop iteration at a time *)

\* the arguments of the calls run step by step: from_date after to_date,
\* max_results negative and zero, the default to_date (30 days on)
FinderFrom == {None, Some(0), Some(5)}
FinderTo == {None, Some(0), Some(4)}
FinderMax == {0 - 1, 0, 3, 50}
FinderNotice == {0, 2}

\* a variant of next_day that stays on the date
next_day_same(current) == current

\* current += timedelta(days=1)
next_day(current) == current + 1

\* the call: now, the defaults of from_date and to_date, min_bookable,
\* available = [], current = from_date
FinderCall(from_date, to_date, max_results, min_notice_hours) ==
    /\ finder.at = "idle"
    /\ file.status = "ok"
    /\ LET cal == load(file).v
           now == NowIn(cal.schedule.timezone, clock)
           from == IF IsNone(from_date) THEN DateOf(now) ELSE Val(from_date)
           to == IF IsNone(to_date) THEN from + 30 ELSE Val(to_date)
       IN  finder' = [NoFinder EXCEPT
                         !.at = "day_loop", !.cal = cal, !.clk = clock,
                         !.from_date = from, !.to_date = to,
                         !.max_results = max_results,
                         !.min_notice_hours = min_notice_hours,
                         !.min_bookable = Plus(now, Hours(min_notice_hours)),
                         !.current = from]
    /\ UNCHANGED <<file, clock, pc, frame, client, hist, calls, saves, file0,
                   query>>

\* one test of "while current <= to_date and len(available) <
\* max_results": the return of available[:max_results], or the entry into
\* _get_slots_for_date(current), which returns [] at once on a holiday or
\* on a weekday without intervals
DayLoop ==
    /\ finder.at = "day_loop"
    /\ finder' =
           IF ~(finder.current <= finder.to_date
                    /\ Len(finder.available) < finder.max_results)
           THEN [finder EXCEPT
                    !.at = "returned",
                    !.ret = Ret(Truncate(finder.available, finder.max_results))]
           ELSE IF is_holiday(finder.cal.schedule.holidays, finder.clk,
                              finder.current)
                   \/ weekly_slots_from(finder.cal, 1,
                                        IsoWeekday(finder.current)) = <<>>
           THEN [finder EXCEPT !.current = next_day(@)]
           ELSE [finder EXCEPT
                    !.at = "for_loop",
                    !.weekly_slots =
                        weekly_slots_from(finder.cal, 1,
                                          IsoWeekday(finder.current)),
                    !.k = 1,
                    !.day_slots = <<>>]
    /\ UNCHANGED <<file, clock, pc, frame, client, hist, calls, saves, file0,
                   query>>

\* one step of "for time_slot in weekly_slots": the next interval, or the
\* return of the day's slots, available.extend(day_slots), current += 1 day
ForLoop ==
    /\ finder.at = "for_loop"
    /\ finder' =
           IF finder.k > Len(finder.weekly_slots)
           THEN [finder EXCEPT
                    !.at = "day_loop",
                    !.available = @ \o finder.day_slots,
                    !.current = next_day(@),
                    !.weekly_slots = <<>>, !.k = 0, !.day_slots = <<>>,
                    !.cursor = Aware(0, 0)]
           ELSE [finder EXCEPT
                    !.at = "while_loop",
                    !.cursor = Combine(finder.current,
                                       finder.weekly_slots[finder.k].start,
                                       finder.cal.schedule.timezone)]
    /\ UNCHANGED <<file, clock, pc, frame, client, hist, calls, saves, file0,
                   query>>

\* one test of "while current + slot_duration <= end": the admission test
\* of the candidate (which raises on a stored entry it cannot compare) and
\* current += slot_duration, or the end of the interval
WhileLoop ==
    /\ finder.at = "while_loop"
    /\ LET end == Combine(finder.current, finder.weekly_slots[finder.k].end,
                          finder.cal.schedule.timezone)
           next == Plus(finder.cursor,
                        Minutes(finder.cal.schedule.slot_duration))
           step(ok) ==
               IF ok.exc # ""
               THEN [finder EXCEPT !.at = "raised", !.ret = ok]
               ELSE [finder EXCEPT
                        !.cursor = next,
                        !.day_slots =
                            IF ok.v
                            THEN Append(@, AvailableSlot(finder.current,
                                               TimeOf(finder.cursor),
                                               TimeOf(next),
                                               finder.cal.schedule.timezone))
                            ELSE @]
       IN  finder' =
               IF ~Le(next, end)
               THEN [finder EXCEPT !.at = "for_loop", !.k = @ + 1]
               ELSE step(slot_admitted(finder.cal, finder.current,
                                       finder.cursor, TimeOf(finder.cursor),
                                       TimeOf(next), finder.min_bookable))
    /\ UNCHANGED <<file, clock, pc, frame, client, hist, calls, saves, file0,
                   query>>

\* the caller has taken the result
FinderReturn ==
    /\ finder.at \in {"returned", "raised"}
    /\ finder' = NoFinder
    /\ UNCHANGED <<file, clock, pc, frame, client, hist, calls, saves, file0,
                   query>>

\* the steps of a running call
FinderStep == DayLoop \/ ForLoop \/ WhileLoop

-----------------------------------------------------------------------------
(* Specifications *)

\* the state after CalendarManager() has been constructed (tools.py)
Init ==
    /\ \E f \in ExistingFiles : file = _ensure_file_exists(f)
    /\ file0 = file
    /\ clock = LocalClock(0, 8, 0)
    /\ pc = [c \in Callers |-> "idle"]
    /\ frame = [c \in Callers |-> NoFrame]
    /\ client = [c \in Callers |-> IMAPEmailClient]
    /\ hist = [c \in Callers |-> NoHist]
    /\ calls = 0
    /\ saves = [n |-> 0, stale |-> FALSE, overlap |-> FALSE, log |-> <<>>]
    /\ query = NoQuery
    /\ finder = NoFinder

Step(c) ==
    \/ AddBlockedLoad(c)
    \/ AddBlockedSave(c)
    \/ StorageFault(c)
    \/ Enter(c)
    \/ SaveDraft(c)
    \/ Exit(c)
    \/ Return(c)

Queries ==
    \/ \E f \in FromDates, t \in ToDates, m \in MaxResults, n \in NoticeHours :
          FindAvailableSlots(f, t, m, n)
    \/ \E d \in QueryDates, s \in QueryStarts, l \in QueryLengths :
          IsSlotBookable(d, s, s + Minutes(l))

\* one caller at a time (the single-session assumption of the design)
Next ==
    \/ \E c \in Callers, req \in Requests : Idle /\ Call(c, req)
    \/ \E c \in Callers : Step(c)
    \/ Tick

Spec == Init /\ [][Next]_vars

\* the requests of the callers that run at once
ConcRequests ==
    { req \in Requests : req.reason \in {"Meeting", "", "Bad"} }

\* several callers (processes) working on the same file at once
NextConc ==
    \/ \E c \in Callers, req \in ConcRequests : Call(c, req)
    \/ \E c \in Callers : Step(c)

SpecConc == Init /\ [][NextConc]_vars

\* the queries asked of each stored calendar at each clock reading
NextQuery ==
    \/ Queries
    \/ Answered
    \/ Tick

SpecQuery == Init /\ [][NextQuery]_vars

\* a calendar Mon-Fri with the intervals `slots`, of region DE
Weekdays(slots, slot_duration) ==
    Schedule("Europe/Berlin", slot_duration, Some("DE"),
             <<WeeklyAvailability(WorkWeek, slots)>>)

\* further valid documents a store may hold: one interval and several
\* granularities, intervals and weekly entries listed out of time order,
\* no region, blocks on a holiday and on a weekend, a block of duration 0,
\* two entries for the same instant with different reasons, and two weekly
\* entries that list the same interval for Monday, a bare date with a
\* duration
Documents ==
    { Stored(cal) : cal \in
        { Calendar(Weekdays(<<TimeSlot(HM(9, 0), HM(12, 0))>>, 30), <<>>),
          Calendar(Weekdays(<<TimeSlot(HM(9, 0), HM(10, 15))>>, 30), <<>>),
          Calendar(Weekdays(<<TimeSlot(HM(9, 0), HM(12, 0))>>, 45), <<>>),
          Calendar(Weekdays(<<TimeSlot(HM(9, 0), HM(9, 20))>>, 30), <<>>),
          Calendar(Weekdays(<<TimeSlot(HM(13, 0), HM(17, 0)),
                              TimeSlot(HM(9, 0), HM(12, 0))>>, 60), <<>>),
          Calendar(Schedule("Europe/Berlin", 60, Some("DE"),
                       <<WeeklyAvailability(WorkWeek,
                             <<TimeSlot(HM(14, 0), HM(16, 0))>>),
                         WeeklyAvailability(<<"mon">>,
                             <<TimeSlot(HM(9, 0), HM(11, 0))>>)>>),
                   <<>>),
          Calendar(Schedule("Europe/Berlin", 30, None,
                       <<WeeklyAvailability(WorkWeek,
                             <<TimeSlot(HM(9, 0), HM(17, 0))>>)>>),
                   <<BlockedTime(StrDateTime(At(3, 10, 0), Hours(2)), Some(60),
                                 None, Some("Dentist"))>>),
          Calendar(nine_to_five,
                   <<BlockedTime(StrDate(3), None, None, Some("Bridge")),
                     BlockedTime(StrDateTime(At(5, 10, 0), Hours(2)), Some(60),
                                 None, Some("Sport")),
                     BlockedTime(StrDateTime(At(738, 10, 0), Hours(2)), Some(60),
                                 None, None)>>),
          Calendar(default_calendar.schedule,
                   <<BlockedTime(StrDateTime(At(0, 12, 30), Hours(2)), Some(60),
                                 None, Some("Lunch"))>>),
          Calendar(nine_to_five,
                   <<BlockedTime(StrDateTime(At(0, 10, 0), Hours(2)), Some(0),
                                 None, Some("Zero"))>>),
          Calendar(default_calendar.schedule,
                   <<BlockedTime(StrDateTime(At(0, 12, 0), 0), Some(30),
                                 None, Some("")),
                     BlockedTime(StrDateTime(At(0, 14, 0), Hours(2)), Some(60),
                                 None, Some("Meeting"))>>),
          Calendar(Schedule("Europe/Berlin", 60, Some("DE"),
                       <<WeeklyAvailability(WorkWeek,
                             <<TimeSlot(HM(9, 0), HM(11, 0))>>),
                         WeeklyAvailability(<<"mon">>,
                             <<TimeSlot(HM(9, 0), HM(11, 0))>>)>>),
                   <<BlockedTime(StrDateTime(At(0, 10, 0), Hours(2)), Some(60),
                                 None, Some("Call"))>>),
          Calendar(nine_to_five,
                   <<BlockedTime(StrDate(1), Some(60), None,
                                 Some("Offsite"))>>) } }

\* the clock readings at which a finder is built: Monday and Friday 08:00
DocumentClocks == { LocalClock(0, 8, 0), LocalClock(4, 8, 0) }

\* a store holding any of the documents, asked at any of the clock readings
InitDocuments ==
    /\ file \in { f \in ExistingFiles : f.status = "ok" } \cup Documents
    /\ file0 = file
    /\ clock \in DocumentClocks
    /\ pc = [c \in Callers |-> "idle"]
    /\ frame = [c \in Callers |-> NoFrame]
    /\ client = [c \in Callers |-> IMAPEmailClient]
    /\ hist = [c \in Callers |-> NoHist]
    /\ calls = 0
    /\ saves = [n |-> 0, stale |-> FALSE, overlap |-> FALSE, log |-> <<>>]
    /\ query = NoQuery
    /\ finder = NoFinder

SpecDocuments == InitDocuments /\ [][NextQuery]_vars

\* the values of the document model constructed and asked one at a time
Values ==
    \/ \E slot \in SlotTimes, block_start \in Datetimes, block_end \in Datetimes :
          OverlapTest(slot, block_start, block_end)
    \/ \E dt \in BlockDatetimes, duration \in BlockDurations,
           until \in BlockUntils :
          ConstructBlockedTime(dt, duration, until)
    \/ GetEnd
    \/ \E start \in SlotBounds, end \in SlotBounds : ConstructTimeSlot(start, end)
    \/ \E country_code \in RegionCodes, d \in HolidayDates :
          IsHoliday(country_code, d)

\* values are constructed and the finder is asked, over every document
NextValues ==
    \/ Values
    \/ Queries
    \/ Answered

SpecValues == InitDocuments /\ [][NextValues]_vars

\* the one session that uses the manager, and the reservations it asks
\* for: Monday 14:00 for an hour, 14:00 written with offset +00:00 for
\* half an hour, 15:00 written without an offset, and no datetime at all
Owner == CHOOSE c \in Callers : TRUE
ManagerRequests ==
    { req \in Requests : req.reason \in {"Meeting", "", "Naive", "Bad"} }

\* the manager's operations, one at a time: reservations, get_free_slots,
\* a new construction, and the file lost in between
NextManager ==
    \/ /\ query.op = "none"
       /\ \/ \E req \in ManagerRequests : Idle /\ Call(Owner, req)
          \/ Step(Owner)
          \/ Tick
    \/ Idle /\ GetFreeSlots
    \/ Construct
    \/ FileLost
    \/ Answered

SpecManager == Init /\ [][NextManager]_vars

\* calls of find_available_slots on any stored document, run step by step;
\* the function is synchronous, so a call that has begun keeps running
NextFinder ==
    \/ \E f \in FinderFrom, t \in FinderTo, m \in FinderMax,
          n \in FinderNotice : FinderCall(f, t, m, n)
    \/ DayLoop
    \/ ForLoop
    \/ WhileLoop
    \/ FinderReturn

SpecFinder == InitDocuments /\ [][NextFinder]_vars /\ WF_vars(FinderStep)

-----------------------------------------------------------------------------
(* Properties of save_draft_and_block_slot *)

\* the call of c has returned true and the value is not yet taken
ReturnedTrue(c) == pc[c] = "done" /\ frame[c].result = "True"

\* the entry add_blocked writes for a request: the start as isoformat()
\* writes the parsed datetime, the duration, no until, the reason
BlockOf(req) ==
    [datetime |-> [req.datetime_str EXCEPT !.kind = "datetime"],
     duration |-> <<req.duration>>, until |-> <<>>, reason |-> <<req.reason>>]

RequestOf(fr) == Request(fr.datetime_str, fr.duration, fr.reason)

\* the supplied reason, or the default when none was supplied
SuppliedOrDefault(reason) == IF reason = "" THEN "Blocked" ELSE reason

\* the wall clock reading in zone tz of a datetime (a datetime without
\* offset is read as it stands)
LocalWall(dt, tz) == IF dt.aware THEN Instant(dt) + UtcOffset(tz) ELSE dt.wall

\* the stored entries whose resolved start or end has no UTC offset
NaiveBlocks(cal) ==
    { i \in 1..Len(cal.blocked) :
        \/ ~get_start(cal.blocked[i], cal.schedule.timezone).v.aware
        \/ ~get_end(cal.blocked[i], cal.schedule.timezone).v.aware }

\* the stored entries, all with offset, that overlap [from, to) (instants)
Hits(cal, from, to) ==
    { i \in (1..Len(cal.blocked)) \ NaiveBlocks(cal) :
        /\ from < Instant(get_end(cal.blocked[i], cal.schedule.timezone).v)
        /\ Instant(get_start(cal.blocked[i], cal.schedule.timezone).v) < to }

\* the rejection text for the interval of the entry just appended with
\* reason text `reason`: that of the first check that fails
RejectionText(cal, clk, d, s, e, reason) ==
    LET tz == cal.schedule.timezone
        from == d * SecondsPerDay + s - UtcOffset(tz)
        to == d * SecondsPerDay + e - UtcOffset(tz)
        first == CHOOSE i \in Hits(cal, from, to) :
                     \A j \in Hits(cal, from, to) : i <= j
    IN  IF from < clk THEN "Timepoint is in the past"
        ELSE IF is_holiday(cal.schedule.holidays, clk, d)
        THEN Val(get_holiday_name(cal.schedule.holidays, d))
        ELSE IF ~day_available(cal, d, s, e) THEN "Outside of availability"
        ELSE IF first = Len(cal.blocked) THEN reason
        ELSE IF IsNone(cal.blocked[first].reason) THEN "Blocked"
        ELSE SuppliedOrDefault(Val(cal.blocked[first].reason))

\* r, the outcome of is_slot_bookable, never accepts
Rejects(r, cal, clk, d, s, e, reason) ==
    IF r.exc # "" THEN r.exc = "TypeError" /\ NaiveBlocks(cal) # {}
    ELSE r.v = <<FALSE, RejectionText(cal, clk, d, s, e, reason)>>

\* exactly one entry more than before the call, resolving to the input
\* start and to start + duration
OneMoreBlock(c) ==
    LET before == hist[c].before.doc.blocked
        after == file.doc.blocked
        tz == file.doc.schedule.timezone
    IN  /\ file.status = "ok"
        /\ Len(after) = Len(before) + 1
        /\ get_start(after[Len(after)], tz) = Ret(frame[c].slot_start)
        /\ get_end(after[Len(after)], tz) =
               Ret(Plus(frame[c].slot_start, Minutes(frame[c].duration)))

\* is_slot_bookable asked for exactly the interval of c's call
BookableAgain(c) ==
    LET tz == file.doc.schedule.timezone
        wall == LocalWall(frame[c].slot_start, tz)
    IN  is_slot_bookable(file.doc, clock, wall \div SecondsPerDay,
                         wall % SecondsPerDay,
                         (wall % SecondsPerDay) + Minutes(frame[c].duration))

C2_Original ==
    \A c \in Callers :
        (pc[c] = "done" /\ hist[c].saved) =>
            /\ hist[c].draft_ret # "none" =>
                   frame[c].result = hist[c].draft_ret
            /\ file.status = "ok"
            /\ file.doc.blocked =
                   Append(hist[c].before.doc.blocked, BlockOf(RequestOf(frame[c])))

\* C3: every save of add_blocked leaves the document as it was with one
\* entry appended at the end: the schedule and the earlier entries are
\* untouched, and after n reservations one after the other the list is
\* the original list followed by the n new entries in call order
C3_AppendOnly ==
    /\ saves.log = <<>> => file = file0
    /\ saves.log # <<>> =>
           /\ file.status = "ok"
           /\ file.doc.schedule = file0.doc.schedule
           /\ file.doc.blocked =
                  file0.doc.blocked \o
                      [i \in 1..Len(saves.log) |-> BlockOf(saves.log[i])]
    /\ \A c \in Callers :
           hist[c].saved =>
               file.doc = [hist[c].before.doc EXCEPT
                              !.blocked = Append(@, BlockOf(RequestOf(frame[c])))]

\* two reservations were saved on top of a document with two entries
C3_Witness ==
    /\ Len(saves.log) = 2
    /\ Len(file0.doc.blocked) = 2
    /\ Len(file.doc.blocked) = 4
    /\ saves.log[1] # saves.log[2]

\* the arguments of c's call are rejected by the validations
InvalidInput(c) ==
    frame[c].datetime_str.kind = "invalid" \/ frame[c].duration <= 0

\* C4: a call whose start string does not parse or whose duration is <= 0
\* returns false at once: the document is neither loaded nor saved and
\* stays as it was, no session is opened and no draft is saved
C4_InvalidInput ==
    \A c \in Callers :
        (pc[c] # "idle" /\ InvalidInput(c)) =>
            /\ pc[c] = "done"
            /\ frame[c].result = "False"
            /\ file = hist[c].before
            /\ hist[c] = [NoHist EXCEPT !.before = file]
            /\ client[c] = IMAPEmailClient

\* a call with an unparseable start has returned, the document holding
\* entries; and such a call follows a saved reservation
C4_Witness ==
    \E c \in Callers :
        /\ pc[c] = "done"
        /\ frame[c].datetime_str.kind = "invalid"
        /\ saves.n = 1
        /\ Len(file.doc.blocked) > 1

\* C5: no exception leaves save_draft_and_block_slot: a finished call has
\* a boolean result, and it is false whenever the validation failed or
\* an exception was raised by load, save, connect or close
C5_NeverRaises ==
    \A c \in Callers :
        /\ frame[c].result \in {"none", "True", "False"}
        /\ pc[c] = "done" =>
               /\ frame[c].result \in {"True", "False"}
               /\ (hist[c].raised # "" \/ InvalidInput(c)) =>
                      frame[c].result = "False"

\* closing the session raised IMAP4.error, which no named except clause
\* of the call matches, and the call returned false
C5_Witness ==
    \E c \in Callers :
        /\ pc[c] = "done"
        /\ hist[c].raised = "IMAP4.error"
        /\ frame[c].result = "False"

\* an entry saved by add_blocked is missing from the document
Lost ==
    /\ file.status = "ok"
    /\ Len(file.doc.blocked) < Len(file0.doc.blocked) + saves.n

\* C6: an entry is lost exactly when a save overwrote a file that had
\* changed since its load, which takes two calls running at once; the
\* document then ends with the entry of the later saver only; calls that
\* run one after the other lose nothing
C6_LostUpdate ==
    /\ Lost <=> saves.stale
    /\ saves.stale => saves.overlap
    /\ saves.n > 0 =>
           /\ file.status = "ok"
           /\ file.doc.blocked[Len(file.doc.blocked)] =
                  BlockOf(saves.log[Len(saves.log)])
    /\ (saves.n = 2 /\ saves.stale) =>
           file.doc.blocked =
               Append(file0.doc.blocked, BlockOf(saves.log[2]))

\* a reservation completed its save and returned true, yet its entry is
\* not in the document
C6_Witness ==
    \E c \in Callers :
        /\ ReturnedTrue(c)
        /\ hist[c].saved
        /\ \A i \in 1..Len(file.doc.blocked) :
               file.doc.blocked[i] # BlockOf(RequestOf(frame[c]))

\* C7: within one call the session is opened only after the save of the
\* new entry has completed, and at most once; save_draft is invoked at
\* most once, so a failed notification is not retried
C7_SaveThenNotifyOnce ==
    \A c \in Callers :
        /\ hist[c].connects > 0 => hist[c].opened_after_save
        /\ pc[c] \in {"enter", "draft", "exit"} => hist[c].saved
        /\ hist[c].connects <= 1
        /\ hist[c].drafts <= 1
        /\ hist[c].drafts = 1 => hist[c].connects = 1

\* save_draft returned false once and the call has ended with false
C7_Witness ==
    \E c \in Callers :
        /\ pc[c] = "done"
        /\ hist[c].saved
        /\ hist[c].drafts = 1
        /\ hist[c].draft_ret = "False"
        /\ frame[c].result = "False"

\* C8 (as stated): when the call has returned, on whatever path, the
\* session it opened is closed: no connection is held
C8_Original ==
    \A c \in Callers :
        pc[c] \in {"idle", "done"} => ~client[c].imap

-----------------------------------------------------------------------------
(* Properties of find_available_slots *)

\* find_available_slots has returned a list
Found == query.op = "find" /\ query.ret.exc = ""

\* the instants at which a returned slot starts and ends
SlotStart(slot) ==
    slot.date * SecondsPerDay + slot.start_time - UtcOffset(slot.timezone)
SlotEnd(slot) ==
    slot.date * SecondsPerDay + slot.end_time - UtcOffset(slot.timezone)

\* the start times of the returned slots
StartTimes == { query.ret.v[i].start_time : i \in 1..Len(query.ret.v) }

\* the query of the example: Monday only, on the calendar Mon-Fri
\* 09:00-17:00 with granularity 30 and a block Monday [10:00, 11:00)
ExampleQuery ==
    /\ Found
    /\ query.args = <<Some(0), Some(0), 50, 0>>
    /\ query.clk = LocalClock(0, 8, 0)
    /\ query.cal = Calendar(nine_to_five,
           <<BlockedTime(StrDateTime(At(0, 10, 0), Hours(2)), Some(60), None,
                         Some("Meeting"))>>)

\* C9: no returned slot overlaps a blocked entry of the document, by the
\* half-open test slot.start < block.end and block.start < slot.end on
\* the resolved instants; in the example the 10:00 and 10:30 slots are
\* absent and the 11:00 slot is present
C9_NoBlockedSlot ==
    /\ Found =>
           \A i \in 1..Len(query.ret.v), j \in 1..Len(query.cal.blocked) :
               LET tz == query.cal.schedule.timezone
                   block == query.cal.blocked[j]
               IN  ~ /\ SlotStart(query.ret.v[i]) < Instant(get_end(block, tz).v)
                     /\ Instant(get_start(block, tz).v) < SlotEnd(query.ret.v[i])
    /\ ExampleQuery =>
           /\ HM(10, 0) \notin StartTimes
           /\ HM(10, 30) \notin StartTimes
           /\ HM(11, 0) \in StartTimes

\* the example query has been answered, with the slots before and after
\* the block
C9_Witness ==
    /\ ExampleQuery
    /\ HM(9, 30) \in StartTimes
    /\ HM(11, 0) \in StartTimes
    /\ Len(query.ret.v) = 14

\* C10: every returned slot starts at or after now + min_notice_hours,
\* now being the clock reading of the call
C10_NoticeWindow ==
    Found =>
        \A i \in 1..Len(query.ret.v) :
            SlotStart(query.ret.v[i]) >= query.clk + Hours(query.args[4])

\* asked at Monday 12:00 with two hours of notice, the first slot
\* returned is Monday 14:00
C10_Witness ==
    /\ Found
    /\ query.clk = LocalClock(0, 12, 0)
    /\ query.args[4] = 2
    /\ query.args[1] \in {None, Some(0)}
    /\ query.ret.v # <<>>
    /\ query.ret.v[1].date = 0
    /\ query.ret.v[1].start_time = HM(14, 0)

\* the slots of date d among the returned ones, in the order returned
SlotsOn(d) ==
    LET on_d(slot) == slot.date = d
    IN  SelectSeq(query.ret.v, on_d)

\* the document of the query has one weekly entry with one interval and
\* no blocks
OneInterval ==
    /\ Len(query.cal.schedule.weekly) = 1
    /\ Len(query.cal.schedule.weekly[1].slots) = 1
    /\ query.cal.blocked = <<>>

\* the steps [s + (k-1)*g, s + k*g] that fit into [s, e], in order
Steps(d, s, e, g, tz) ==
    [k \in 1..((e - s) \div Minutes(g)) |->
        AvailableSlot(d, s + (k - 1) * Minutes(g), s + k * Minutes(g), tz)]

\* the days the day loop of the query has visited without cutting the list
VisitedDays ==
    LET from == IF IsNone(query.args[1])
                THEN (query.clk + UtcOffset(query.cal.schedule.timezone))
                         \div SecondsPerDay
                ELSE Val(query.args[1])
        to == IF IsNone(query.args[2]) THEN from + 30 ELSE Val(query.args[2])
    IN  IF Len(query.ret.v) < query.args[3] THEN from..to ELSE {}

\* C11: on a day that is no holiday and is listed by the only weekly
\* entry, whose only interval is [s, e], with no blocks and the notice
\* window over before s, the slots generated are exactly the steps
\* [s + k*g, s + (k+1)*g] with s + (k+1)*g <= e, each g minutes long; for
\* [09:00, 12:00] and g = 30 these are the 6 slots 09:00 .. 11:30
C11_GranularityCoverage ==
    (Found /\ OneInterval) =>
        LET sched == query.cal.schedule
            s == sched.weekly[1].slots[1].start
            e == sched.weekly[1].slots[1].end
            g == sched.slot_duration
        IN  /\ \A d \in VisitedDays :
                   ( /\ ~is_holiday(sched.holidays, query.clk, d)
                     /\ d % 7 < 5
                     /\ query.clk + Hours(query.args[4]) <=
                            d * SecondsPerDay + s - UtcOffset(sched.timezone) )
                   => /\ SlotsOn(d) = Steps(d, s, e, g, sched.timezone)
                      /\ \A i \in 1..Len(SlotsOn(d)) :
                             /\ SlotsOn(d)[i].end_time - SlotsOn(d)[i].start_time
                                    = Minutes(g)
                             /\ SlotsOn(d)[i].end_time <= e
            /\ ( /\ s = HM(9, 0) /\ e = HM(12, 0) /\ g = 30
                 /\ query.args = <<Some(0), Some(0), 50, 0>>
                 /\ query.clk = LocalClock(0, 8, 0) )
               => [i \in 1..Len(query.ret.v) |-> query.ret.v[i].start_time] =
                      <<HM(9, 0), HM(9, 30), HM(10, 0), HM(10, 30), HM(11, 0),
                        HM(11, 30)>>

\* Monday has been asked of the calendar 09:00-12:00 with granularity 30:
\* six slots, the last one ending at 12:00
C11_Witness ==
    /\ Found /\ OneInterval
    /\ query.args = <<Some(0), Some(0), 50, 0>>
    /\ query.clk = LocalClock(0, 8, 0)
    /\ query.cal.schedule.weekly[1].slots[1] = TimeSlot(HM(9, 0), HM(12, 0))
    /\ query.cal.schedule.slot_duration = 30
    /\ Len(query.ret.v) = 6
    /\ query.ret.v[6].end_time = HM(12, 0)

RECURSIVE FirstOfEnumeration(_, _, _)
\* the first `missing` slots of the enumeration of the dates current ..
\* to_date of the query, one date after the other (an error of a date that
\* contributes to them is the result)
FirstOfEnumeration(current, to_date, missing) ==
    IF missing <= 0 \/ current > to_date THEN Ret(<<>>)
    ELSE LET first(day_slots) ==
                 LET n == IF Len(day_slots.v) < missing
                          THEN Len(day_slots.v) ELSE missing
                     then(rest) ==
                         IF rest.exc # "" THEN rest
                         ELSE Ret(SubSeq(day_slots.v, 1, n) \o rest.v)
                 IN  IF day_slots.exc # "" THEN day_slots
                     ELSE then(FirstOfEnumeration(current + 1, to_date, missing - n))
         IN  first(_get_slots_for_date(query.cal, query.clk, current,
                       Plus(NowIn(query.cal.schedule.timezone, query.clk),
                            Hours(query.args[4]))))

\* the dates from_date .. to_date of the query with the defaults filled in
QueryFrom ==
    IF IsNone(query.args[1])
    THEN DateOf(NowIn(query.cal.schedule.timezone, query.clk))
    ELSE Val(query.args[1])

QueryTo ==
    IF IsNone(query.args[2]) THEN QueryFrom + 30 ELSE Val(query.args[2])

\* C12: find_available_slots returns at most max_results slots, and they
\* are the first max_results of the enumeration over all dates from_date ..
\* to_date: leaving the day loop early drops or changes none of them
C12_MaxResultsPrefix ==
    query.op = "find" =>
        /\ Found => Len(query.ret.v) <= query.args[3]
        /\ query.ret = FirstOfEnumeration(QueryFrom, QueryTo, query.args[3])

\* three slots were asked for, the day loop left after the first of
\* several days, and the enumeration of the other days holds more
C12_Witness ==
    /\ Found
    /\ query.args[3] = 3
    /\ query.args[1] = Some(0) /\ query.args[2] = Some(4)
    /\ Len(query.ret.v) = 3
    /\ FirstOfEnumeration(1, 4, 1).v # <<>>

\* C13: the list returned by find_available_slots is in chronological
\* order for every valid document, also one whose weekly entries or
\* intervals are not listed in time order: dates ascending, and within one
\* date the start times ascending
C13_Original ==
    Found =>
        \A i \in 1..Len(query.ret.v), j \in 1..Len(query.ret.v) :
            i < j => \/ query.ret.v[i].date < query.ret.v[j].date
                     \/ /\ query.ret.v[i].date = query.ret.v[j].date
                        /\ query.ret.v[i].start_time < query.ret.v[j].start_time

\* the weekday of date d is listed by some weekly entry of the document
WeekdayListed(cal, d) ==
    \E i \in 1..Len(cal.schedule.weekly) :
        \E j \in 1..Len(cal.schedule.weekly[i].days) :
            iso_weekday(cal.schedule.weekly[i].days[j]) = IsoWeekday(d)

\* the dates of the returned slots
SlotDates == { query.ret.v[i].date : i \in 1..Len(query.ret.v) }

\* C14 as stated: no returned slot lies on a date that is a holiday of the
\* configured region, nor on a weekday that no weekly entry includes
C14_Original ==
    Found =>
        \A d \in SlotDates :
            /\ IsNone(get_holiday_name(query.cal.schedule.holidays, d))
            /\ WeekdayListed(query.cal, d)

\* C14: no returned slot lies on a date of the holiday set the finder's
\* checker holds (the region's holidays from one year before its
\* construction to three years after that start), nor on a weekday that no
\* weekly entry includes, whatever the blocked list contains
C14_NoHolidayNoWeekend ==
    Found =>
        \A d \in SlotDates :
            /\ d \notin HolidayChecker(query.cal.schedule.holidays, query.clk)
            /\ WeekdayListed(query.cal, d)

\* Thursday 1 May to Sunday 4 May 2025 have been asked of the Mon-Fri
\* calendar that holds blocks on the holiday and on the Saturday: all the
\* slots returned are Friday's
C14_Witness ==
    /\ Found
    /\ query.args[1] = Some(3) /\ query.args[2] = Some(6)
    /\ query.args[3] = 50
    /\ query.clk = LocalClock(0, 8, 0)
    /\ Len(query.cal.blocked) = 3
    /\ 3 \in HolidayChecker(query.cal.schedule.holidays, query.clk)
    /\ SlotDates = {4}

\* the stored entries, resolving to instants, that overlap [from, to)
BlockHits(cal, from, to) ==
    { i \in 1..Len(cal.blocked) :
        LET block_start == get_start(cal.blocked[i], cal.schedule.timezone)
            block_end == get_end(cal.blocked[i], cal.schedule.timezone)
        IN  /\ block_start.exc = "" /\ block_end.exc = ""
            /\ block_start.v.aware /\ block_end.v.aware
            /\ from < Instant(block_end.v)
            /\ Instant(block_start.v) < to }

\* the answer for a failed blocked check: the first overlapping entry's
\* reason, "Blocked" when it has none
BlockedAnswer(cal, hits) ==
    LET first == CHOOSE i \in hits : \A j \in hits : i <= j
    IN  <<FALSE, IF IsNone(cal.blocked[first].reason)
                    \/ Val(cal.blocked[first].reason) = ""
                 THEN "Blocked" ELSE Val(cal.blocked[first].reason)>>

\* C15: is_slot_bookable checks past, then holiday (a date of the checker's
\* holiday set), then outside availability, then blocked, and answers with
\* the reason of the first check that fails, whatever the later checks
\* would say; it answers (true, "") only if all four checks pass (resolving
\* a stored entry can raise, in the blocked check only)
C15_CheckOrder ==
    query.op = "bookable" =>
        LET cal == query.cal
            d == query.args[1]
            from == d * SecondsPerDay + query.args[2]
                        - UtcOffset(cal.schedule.timezone)
            to == d * SecondsPerDay + query.args[3]
                      - UtcOffset(cal.schedule.timezone)
            past == from < query.clk
            holiday == d \in HolidayChecker(cal.schedule.holidays, query.clk)
            outside == ~day_available(cal, d, query.args[2], query.args[3])
            hits == BlockHits(cal, from, to)
        IN  /\ past => query.ret = Ret(<<FALSE, "Timepoint is in the past">>)
            /\ (~past /\ holiday) =>
                   query.ret =
                       Ret(<<FALSE, Val(get_holiday_name(cal.schedule.holidays, d))>>)
            /\ (~past /\ ~holiday /\ outside) =>
                   query.ret = Ret(<<FALSE, "Outside of availability">>)
            /\ (~past /\ ~holiday /\ ~outside /\ query.ret.exc = "") =>
                   query.ret.v = IF hits = {} THEN <<TRUE, "">>
                                 ELSE BlockedAnswer(cal, hits)
            /\ (query.ret.exc = "" /\ query.ret.v[1]) =>
                   ~past /\ ~holiday /\ ~outside /\ hits = {}

\* Thursday 1 May 2025 12:30-13:30 has been asked on the Monday before of
\* the calendar 09:00-12:00 and 13:00-17:00: a holiday and outside the
\* availability, answered with the holiday's name
C15_Witness ==
    /\ query.op = "bookable"
    /\ query.clk = LocalClock(0, 8, 0)
    /\ query.args = <<3, HM(12, 30), HM(13, 30)>>
    /\ ~day_available(query.cal, 3, HM(12, 30), HM(13, 30))
    /\ query.ret = Ret(<<FALSE, "Labor Day">>)

\* every stored entry resolves to a start and an end with UTC offset
BlocksResolve(cal) ==
    \A i \in 1..Len(cal.blocked) :
        LET block_start == get_start(cal.blocked[i], cal.schedule.timezone)
            block_end == get_end(cal.blocked[i], cal.schedule.timezone)
        IN  /\ block_start.exc = "" /\ block_end.exc = ""
            /\ block_start.v.aware /\ block_end.v.aware

\* the slots find_available_slots returns for the date of the bookability
\* query alone, asked at the same clock reading with notice n
SameDay(n) ==
    find_available_slots(query.cal, query.clk, Some(query.args[1]),
                         Some(query.args[1]), 50, n)

\* the start of the bookability query is at or after now and before
\* now + n hours
InsideNotice(n) ==
    LET from == query.args[1] * SecondsPerDay + query.args[2]
                    - UtcOffset(query.cal.schedule.timezone)
    IN  query.clk <= from /\ from < query.clk + Hours(n)

\* the interval of the bookability query passes the holiday, availability
\* and blocked checks
OpenInterval ==
    LET cal == query.cal
        d == query.args[1]
        off == UtcOffset(cal.schedule.timezone)
    IN  /\ d \notin HolidayChecker(cal.schedule.holidays, query.clk)
        /\ day_available(cal, d, query.args[2], query.args[3])
        /\ BlocksResolve(cal)
        /\ BlockHits(cal, d * SecondsPerDay + query.args[2] - off,
                      d * SecondsPerDay + query.args[3] - off) = {}

\* C16: is_slot_bookable holds no notice against the start: an interval
\* that starts at or after now but before now + n hours, lies within the
\* weekly availability, on no holiday, and overlaps no block is accepted,
\* although find_available_slots asked with notice n returns no slot with
\* that start
C16_NoNoticeInBookable ==
    query.op = "bookable" =>
        \A n \in NoticeHours :
            (InsideNotice(n) /\ OpenInterval) =>
                /\ query.ret = Ret(<<TRUE, "">>)
                /\ SameDay(n).exc = ""
                /\ \A i \in 1..Len(SameDay(n).v) :
                       SameDay(n).v[i].start_time # query.args[2]

\* Monday 14:00-15:00 has been asked at 13:00 of a calendar whose finder,
\* with no notice, returns the 14:00 slot: accepted, and inside the window
\* of a notice of two hours
C16_Witness ==
    /\ query.op = "bookable"
    /\ query.clk = LocalClock(0, 13, 0)
    /\ query.args = <<0, HM(14, 0), HM(15, 0)>>
    /\ InsideNotice(2) /\ OpenInterval
    /\ query.ret = Ret(<<TRUE, "">>)
    /\ \E i \in 1..Len(SameDay(0).v) : SameDay(0).v[i].start_time = HM(14, 0)

\* C17: the overlap test is symmetric in slot and block (the same answer
\* with the two exchanged; for a block whose start and end both carry an
\* offset, or both carry none, the same outcome), it is the half-open test
\* on the instants, and touching intervals do not overlap: a slot whose end
\* is the block's start, or whose start is the block's end, is not blocked
C17_SymmetricHalfOpen ==
    query.op = "overlaps" =>
        LET slot_start == query.args[1]
            slot_end == query.args[2]
            block_start == query.args[3]
            block_end == query.args[4]
            slot_block == query.ret[1]
            block_slot == query.ret[2]
        IN  /\ (slot_block.exc = "" /\ block_slot.exc = "") =>
                   slot_block.v = block_slot.v
            /\ block_start.aware = block_end.aware => slot_block = block_slot
            /\ (block_start.aware /\ block_end.aware) =>
                   /\ slot_block =
                          Ret(/\ Instant(slot_start) < Instant(block_end)
                              /\ Instant(block_start) < Instant(slot_end))
                   /\ ( \/ Instant(slot_end) = Instant(block_start)
                        \/ Instant(slot_start) = Instant(block_end) )
                      => slot_block = Ret(FALSE)

\* the slot 10:00-11:00 +02:00 has been tested against a block that starts
\* at 09:00 +00:00, the instant the slot ends at, and ends an hour later
C17_Witness ==
    /\ query.op = "overlaps"
    /\ query.args = <<Aware(At(0, 10, 0), Hours(2)), Aware(At(0, 11, 0), Hours(2)),
                      Aware(At(0, 9, 0), 0), Aware(At(0, 12, 0), Hours(2))>>
    /\ query.ret = <<Ret(FALSE), Ret(FALSE)>>

\* the entry of the construction: both fields set, neither set, timed
BothSet == ~IsNone(query.args[2]) /\ ~IsNone(query.args[3])
NeitherSet == IsNone(query.args[2]) /\ IsNone(query.args[3])

\* C18 as stated: construction fails with both set, and with neither set
\* it succeeds only if the entry is all-day
C18_Original ==
    query.op = "blocked" =>
        /\ BothSet => query.ret.exc # ""
        /\ (NeitherSet /\ query.ret.exc = "") => ~HasT(query.args[1])

\* C18: construction of a BlockedTime fails exactly when duration and until
\* are both set; with neither set it succeeds, for a timed entry as for an
\* all-day one, and the timed entry with neither fails when its end is
\* asked for (get_end raises ValueError)
C18_NotBoth ==
    /\ query.op = "blocked" =>
           /\ query.ret.exc # "" <=> BothSet
           /\ BothSet => query.ret = Raise("ValidationError")
           /\ ~BothSet =>
                  query.ret = Ret(BlockedTime(query.args[1], query.args[2],
                                              query.args[3], None))
    /\ ( /\ query.op = "get_end"
         /\ HasT(query.args[1].datetime)
         /\ IsNone(query.args[1].duration) /\ IsNone(query.args[1].until) )
       => query.ret = Raise("ValueError")

\* a timed entry with neither duration nor until was constructed, and its
\* end has been asked for
C18_Witness ==
    /\ query.op = "get_end"
    /\ query.args[1] = BlockedTime(StrDateTime(At(0, 10, 0), Hours(2)), None,
                                   None, None)
    /\ query.ret = Raise("ValueError")

\* C19: get_end is the explicit until if one is given (23:59:59 of the
\* until date for a bare date, else the instant written); otherwise start
\* + duration whenever a duration is given, 0 included; otherwise 23:59:59
\* of the start date for an all-day entry; otherwise an error
C19_Original ==
    ( /\ query.op = "get_end"
      /\ query.args[1].until # Some(StrEmpty) ) =>
        LET b == query.args[1]
            start == get_start(b, "Europe/Berlin").v
        IN  query.ret =
                IF ~IsNone(b.until)
                THEN IF HasT(Val(b.until))
                     THEN Ret([wall |-> Val(b.until).wall,
                               aware |-> Val(b.until).aware,
                               off |-> Val(b.until).off])
                     ELSE Ret(Combine(Val(b.until).wall \div SecondsPerDay,
                                      EndOfDay, "Europe/Berlin"))
                ELSE IF ~IsNone(b.duration)
                THEN Ret(Plus(start, Minutes(Val(b.duration))))
                ELSE IF ~HasT(b.datetime)
                THEN Ret(Combine(DateOf(start), EndOfDay, "Europe/Berlin"))
                ELSE Raise("ValueError")

\* C20: a TimeSlot is constructed exactly when end > start (end < start
\* and end = start fail), every interval of a stored document has end >
\* start, and so has every slot the finder returns
C20_EndAfterStart ==
    /\ query.op = "timeslot" =>
           /\ query.ret.exc = "" <=> query.args[2] > query.args[1]
           /\ query.ret.exc = "" =>
                  query.ret.v = TimeSlot(query.args[1], query.args[2])
           /\ query.ret.exc # "" => query.ret = Raise("ValidationError")
    /\ file.status = "ok" =>
           \A i \in 1..Len(file.doc.schedule.weekly) :
               \A k \in 1..Len(file.doc.schedule.weekly[i].slots) :
                   file.doc.schedule.weekly[i].slots[k].end >
                       file.doc.schedule.weekly[i].slots[k].start
    /\ Found =>
           \A i \in 1..Len(query.ret.v) :
               query.ret.v[i].end_time > query.ret.v[i].start_time

\* a TimeSlot from 09:30 to 09:30 has been asked for and refused
C20_Witness ==
    /\ query.op = "timeslot"
    /\ query.args = <<HM(9, 30), HM(9, 30)>>
    /\ query.ret = Raise("ValidationError")

\* d is a date of the German rule table and a known code is configured
RuleDate ==
    /\ query.args[1] = Some("DE")
    /\ \E h \in GermanBankHolidays : h.day = query.args[2]

\* the day of the clock reading at which the checker was built
BuiltOn == (query.clk + UtcOffset("Europe/Berlin")) \div SecondsPerDay

C22_FreeSlotsNeverRaise ==
    query.op = "free" =>
        /\ query.ret.exc = ""
        /\ Len(query.ret.v) <= 50
        /\ \A i \in 1..Len(query.ret.v) :
               SlotStart(query.ret.v[i]) >= query.clk + Hours(2)
        /\ query.args[1].status # "ok" => query.ret.v = <<>>
        /\ ( /\ query.args[1].status = "ok"
             /\ find_available_slots(query.args[1].doc, query.clk, None, None,
                                      50, 2).exc # "" )
           => query.ret.v = <<>>
        /\ file = query.args[1]

\* get_free_slots has been called on a document holding an entry without
\* UTC offset, on which the slot computation raises TypeError
C22_Witness ==
    /\ query.op = "free"
    /\ query.args[1].status = "ok"
    /\ NaiveBlocks(query.args[1].doc) # {}
    /\ query.ret = Ret(<<>>)

\* C23: constructing a CalendarManager writes the default document (Mon-Fri
\* 09:00-12:00 and 13:00-17:00, granularity 30, region DE, nothing
\* blocked) when no file exists, and otherwise leaves the file as it is,
\* the blocks of earlier reservations included
C23_DefaultIffMissing ==
    query.op = "construct" =>
        /\ query.args[1].status = "missing" =>
               file = Stored(Calendar(
                          Schedule("Europe/Berlin", 30, Some("DE"),
                              <<WeeklyAvailability(
                                    <<"mon", "tue", "wed", "thu", "fri">>,
                                    <<TimeSlot(HM(9, 0), HM(12, 0)),
                                      TimeSlot(HM(13, 0), HM(17, 0))>>)>>),
                          <<>>))
        /\ query.args[1].status # "missing" => file = query.args[1]

\* a manager has been constructed over a file that holds the block of an
\* earlier reservation
C23_Witness ==
    /\ query.op = "construct"
    /\ query.args[1].status = "ok"
    /\ saves.n > 0
    /\ Len(file.doc.blocked) > Len(file0.doc.blocked)
    /\ file = query.args[1]

\* C24: a reservation that returned true has appended no block on top of
\* a block the document held before the call (half-open test), none on a
\* holiday and none outside the weekly availability, so that the blocks of
\* successful reservations never overlap
C24_Original ==
    \A c \in Callers :
        ReturnedTrue(c) =>
            LET before == hist[c].before.doc
                tz == before.schedule.timezone
                wall == LocalWall(frame[c].slot_start, tz)
                d == wall \div SecondsPerDay
                start == wall % SecondsPerDay
                end == start + Minutes(frame[c].duration)
            IN  /\ BlockHits(before, wall - UtcOffset(tz),
                              wall + Minutes(frame[c].duration) - UtcOffset(tz))
                       = {}
                /\ d \notin HolidayChecker(before.schedule.holidays, clock)
                /\ day_available(before, d, start, end)

\* C25: every entry a reservation has saved starts at a datetime with UTC
\* offset, and on a document that reservations have made from one whose
\* entries all carry an offset the slot computation of get_free_slots
\* completes without error
C25_Original ==
    /\ \A c \in Callers :
           (pc[c] = "done" /\ hist[c].saved) => frame[c].slot_start.aware
    /\ ( /\ query.op = "free"
         /\ query.args[1].status = "ok"
         /\ NaiveBlocks(file0.doc) = {} )
       => find_available_slots(query.args[1].doc, query.clk, None, None,
                               50, 2).exc = ""

\* C26: for the same document and the same clock reading, every slot that
\* find_available_slots returns (notice 0, 1 or 2 hours) is answered
\* (true, "") by is_slot_bookable(date, start_time, end_time)
C26_EnumerationBookable ==
    Found =>
        \A i \in 1..Len(query.ret.v) :
            is_slot_bookable(query.cal, query.clk, query.ret.v[i].date,
                             query.ret.v[i].start_time,
                             query.ret.v[i].end_time) = Ret(<<TRUE, "">>)

\* slots have been returned, from Monday on and across the holiday of
\* Thursday 1 May 2025, for a document with blocked entries and a holiday
\* region, asked without notice
C26_Witness ==
    /\ Found
    /\ query.args[4] = 0
    /\ query.cal.blocked # <<>>
    /\ query.cal.schedule.holidays = Some("DE")
    /\ \E i, j \in 1..Len(query.ret.v) :
           query.ret.v[i].date < 3 /\ query.ret.v[j].date > 3

\* the bookability query was answered false by the blocked check: the
\* start is not past, the date no holiday, the interval inside the
\* availability
RejectedAsBlocked ==
    /\ query.op = "bookable"
    /\ query.ret.exc = ""
    /\ ~query.ret.v[1]
    /\ query.ret.v[2] \notin {"Timepoint is in the past",
                              "Outside of availability"}
    /\ query.args[1] \notin
           HolidayChecker(query.cal.schedule.holidays, query.clk)

\* the stored entries that overlap the interval of the bookability query
QueryHits ==
    BlockHits(query.cal,
              query.args[1] * SecondsPerDay + query.args[2]
                  - UtcOffset(query.cal.schedule.timezone),
              query.args[1] * SecondsPerDay + query.args[3]
                  - UtcOffset(query.cal.schedule.timezone))

\* C27: when is_slot_bookable rejects an interval as blocked, the reason is
\* the stored reason of the overlapping entry that comes first in the
\* document, "Blocked" when that entry has no reason or an empty one,
\* whatever the reasons of later overlapping entries
C27_FirstOverlapReason ==
    RejectedAsBlocked =>
        /\ QueryHits # {}
        /\ \E first \in QueryHits :
               /\ \A j \in QueryHits : first <= j
               /\ LET reason == query.cal.blocked[first].reason
                  IN  query.ret.v[2] =
                          IF IsNone(reason) THEN "Blocked"
                          ELSE IF Val(reason) = "" THEN "Blocked"
                          ELSE Val(reason)

\* Monday 14:00-15:00 is rejected as "Blocked" on a document whose first
\* overlapping entry has the empty reason and whose second overlapping
\* entry has the reason "Meeting"
C27_Witness ==
    /\ RejectedAsBlocked
    /\ query.ret.v[2] = "Blocked"
    /\ \E i, j \in QueryHits :
           /\ i < j
           /\ query.cal.blocked[i].reason = Some("")
           /\ query.cal.blocked[j].reason = Some("Meeting")

\* the days of the first week and the two after it
Week == 0..8

\* the document without its i-th stored entry
Without(cal, i) ==
    [cal EXCEPT !.blocked = SubSeq(@, 1, i - 1) \o SubSeq(@, i + 1, Len(@))]

\* the slots of date d for the notice and clock reading of the query
DaySlots(cal, d) ==
    _get_slots_for_date(cal, query.clk, d,
        Plus(NowIn(cal.schedule.timezone, query.clk), Hours(query.args[4])))

\* the date a bare-date string names
NamedDate(s) == s.wall \div SecondsPerDay

\* a stored entry from bare date D1 until bare date D2 leaves no returned
\* slot on D1..D2 and changes the slots of no date outside D1..D2
UntilDateBlocks(i) ==
    LET b == query.cal.blocked[i]
    IN  (b.datetime.kind = "date" /\ ~IsNone(b.until)
             /\ Val(b.until).kind = "date") =>
            /\ \A d \in NamedDate(b.datetime)..NamedDate(Val(b.until)) :
                   SlotsOn(d) = <<>>
            /\ \A d \in Week \ (NamedDate(b.datetime)..NamedDate(Val(b.until))) :
                   DaySlots(query.cal, d) = DaySlots(Without(query.cal, i), d)

\* a stored entry of bare date D leaves no returned slot on D and changes
\* the slots of no other date
DateBlocks(i) ==
    LET b == query.cal.blocked[i]
    IN  /\ SlotsOn(NamedDate(b.datetime)) = <<>>
        /\ \A d \in Week \ {NamedDate(b.datetime)} :
               DaySlots(query.cal, d) = DaySlots(Without(query.cal, i), d)

\* C28 as stated: a bare-date entry on date D without until removes every
\* slot of D and no slot of another date; from D1 with bare-date until D2
\* it removes every slot of D1..D2 and none after D2
C28_Original ==
    Found =>
        \A i \in 1..Len(query.cal.blocked) :
            /\ (query.cal.blocked[i].datetime.kind = "date"
                    /\ IsNone(query.cal.blocked[i].until)) => DateBlocks(i)
            /\ UntilDateBlocks(i)

\* C28: a bare-date entry on date D without until and without a duration
\* other than 0 removes every slot of D and no slot of another date; from
\* D1 with bare-date until D2 it removes every slot of D1..D2 and none of
\* another date
C28_AllDayBlocks ==
    Found =>
        \A i \in 1..Len(query.cal.blocked) :
            /\ (query.cal.blocked[i].datetime.kind = "date"
                    /\ IsNone(query.cal.blocked[i].until)
                    /\ (IsNone(query.cal.blocked[i].duration)
                            \/ Val(query.cal.blocked[i].duration) = 0))
                   => DateBlocks(i)
            /\ UntilDateBlocks(i)

\* slots of Monday and of Wednesday have been returned, none of Tuesday,
\* for a document with the bare-date entry "Urlaub" on Tuesday, without
\* which Tuesday has slots
C28_Witness ==
    /\ Found
    /\ \E i \in 1..Len(query.cal.blocked) :
           /\ query.cal.blocked[i] =
                  BlockedTime(StrDate(1), None, None, Some("Urlaub"))
           /\ DaySlots(Without(query.cal, i), 1).v # <<>>
    /\ SlotsOn(0) # <<>>
    /\ SlotsOn(1) = <<>>
    /\ SlotsOn(2) # <<>>

\* the slots of date d from the k-th weekly entry alone, and from the
\* entries k, k+1, ... one after the other
EntrySlots(cal, k, d) ==
    DaySlots([cal EXCEPT !.schedule.weekly = <<@[k]>>], d).v

RECURSIVE EntriesFrom(_, _, _)
EntriesFrom(cal, k, d) ==
    IF k > Len(cal.schedule.weekly) THEN <<>>
    ELSE EntrySlots(cal, k, d) \o EntriesFrom(cal, k + 1, d)

\* C29: on a document with several weekly entries,
\* the slots of a date (two Mondays, a Tuesday and the date of the
\* first returned slot are looked at) are those of each weekly entry that
\* lists its weekday, one entry after the other, no duplicate removed; the
\* returned slots of a date are a prefix of that list, and for the first
\* date with slots its first max_results elements, so that an interval
\* listed by two entries yields each slot twice and counts twice
C29_EntriesConcatenated ==
    (Found /\ Len(query.cal.schedule.weekly) > 1 /\ BlocksResolve(query.cal)) =>
        \A d \in {0, 1, 7} \cup {query.ret.v[i].date : i \in {1} \cap DOMAIN query.ret.v} :
            LET listed(entries, returned) ==
                    /\ DaySlots(query.cal, d) = Ret(entries)
                    /\ Len(returned) <= Len(entries)
                    /\ returned = SubSeq(entries, 1, Len(returned))
                    /\ (query.ret.v # <<>> /\ query.ret.v[1].date = d) =>
                           returned = Truncate(entries, query.args[3])
            IN  listed(EntriesFrom(query.cal, 1, d), SlotsOn(d))

\* three slots were asked of the document whose two weekly entries both
\* list 09:00-11:00 for Monday, 10:00-11:00 of Monday being blocked:
\* Monday 09:00-10:00 is returned twice, and Tuesday 09:00-10:00 third
C29_Witness ==
    /\ Found
    /\ query.args[3] = 3
    /\ Len(query.cal.schedule.weekly) = 2
    /\ query.cal.schedule.weekly[1].slots = query.cal.schedule.weekly[2].slots
    /\ query.ret.v =
           <<AvailableSlot(0, HM(9, 0), HM(10, 0), "Europe/Berlin"),
             AvailableSlot(0, HM(9, 0), HM(10, 0), "Europe/Berlin"),
             AvailableSlot(1, HM(9, 0), HM(10, 0), "Europe/Berlin")>>

\* a call run step by step is inside its loops, or has ended
FinderRunning == finder.at \in {"day_loop", "for_loop", "while_loop"}
FinderFinished == finder.at \in {"returned", "raised"}

\* C30: every find_available_slots call ends: what it leaves is what the
\* function computes, the empty list when from_date > to_date or
\* max_results <= 0; while it runs the date moves by one day at a time,
\* from from_date and never past the day after to_date, and the candidate
\* start moves by the
\* granularity, at least 5 minutes, inside the interval; and a running
\* call always reaches its end
C30_Terminates ==
    /\ [](FinderFinished =>
             finder.ret = find_available_slots(finder.cal, finder.clk,
                              Some(finder.from_date), Some(finder.to_date),
                              finder.max_results, finder.min_notice_hours))
    /\ []((finder.at = "returned"
              /\ (finder.from_date > finder.to_date
                      \/ finder.max_results <= 0))
             => finder.ret = Ret(<<>>))
    /\ [](FinderRunning =>
             /\ finder.from_date <= finder.current
             /\ finder.current <= finder.to_date + 1
                    \/ finder.current = finder.from_date
             /\ finder.at # "day_loop" => finder.current <= finder.to_date)
    /\ [][(FinderRunning /\ finder'.at # "idle")
             => /\ finder'.current \in {finder.current, finder.current + 1}
                /\ (finder.at = "while_loop" /\ finder'.at = "while_loop")
                       => /\ finder'.cursor.wall
                                 = finder.cursor.wall
                                     + Minutes(finder.cal.schedule.slot_duration)
                          /\ finder'.cursor.wall >= finder.cursor.wall + Minutes(5)
                          /\ finder'.cursor.wall
                                 <= finder.current * SecondsPerDay
                                        + finder.weekly_slots[finder.k].end
                /\ (finder.at = "day_loop" /\ finder'.at = "day_loop")
                       => finder'.current = finder.current + 1]_vars
    /\ FinderRunning ~> FinderFinished

\* a call with the default to_date and max_results = 50 has returned
\* slots after its day loop ran over all 31 days
C30_Witness ==
    /\ finder.at = "returned"
    /\ finder.max_results = 50
    /\ finder.to_date = finder.from_date + 30
    /\ finder.current = finder.to_date + 1
    /\ finder.ret.v # <<>>

=============================================================================
